---------------------------- MODULE Spec2Model ----------------------------
(***************************************************************************)
(* A state-machine model of the procedural layout engine of               *)
(* lucasdino/ai-battlemaps (src/engine/layoutgen and the WFC tiler of     *)
(* src/engine/image_scene_synthesis).                                     *)
(*                                                                         *)
(* The module holds one specification per generation path:                *)
(*   SpecPhys     PhysicsLayoutGenerator.generate_tinykep_layout          *)
(*   SpecAdj      AdjacentRoomLayoutGenerator.generate_layout, to doors   *)
(*   SpecAdjGrid  the same with _create_final_grid, for two rooms         *)
(*   SpecGraph    the graph stage of the physics generators               *)
(*   SpecPhysGrid the whole of generate_tinykep_layout, for three rooms   *)
(*   SpecWFC      WaveFunctionCollapse.run                                *)
(*   SpecMgr      LayoutManager.generate_layout and LayoutSystem          *)
(*   SpecSeeded   two seeded runs of _generate_rooms_in_circle            *)
(*   SpecRequests two generate calls at once on one generator             *)
(*   SpecAgent    parse_design_room on a response of the model            *)
(*   SpecPoly     PolyominoLayoutGenerator.generate                       *)
(*   SpecWFCFair  SpecWFC with its steps taken under weak fairness        *)
(*   SpecCorridor the four corridor painters on two painted rooms         *)
(*   SpecDoor     the door window of _place_doors_between_adjacent_rooms  *)
(*   SpecSelect   _select_main_rooms of the three generators              *)
(*   SpecAsync    DungeonAgent._design_dungeon_async                      *)
(*   SpecChat     ChatAPI.chat_parsed and chat_parsed_async               *)
(* Every specification uses the same variables; a path leaves the         *)
(* variables of the other paths at their initial value.                   *)
(*                                                                         *)
(* Floating point: room positions of the physics path are whole numbers   *)
(* held in floats (they are snapped to the tile grid after every move);   *)
(* forces are modelled in fixed point with ForceScale units per tile.     *)
(***************************************************************************)
EXTENDS Integers, Sequences, FiniteSets, TLC

VARIABLES
    pc,         \* position of the running generate call
    rooms,      \* self.rooms: room id -> PhysicsRoom in the physics path, the
                \* list of AdjacentRoom in the adjacency path
    params,     \* the parameter object of the run
    grid,       \* self.grid: cell <<x, y>> -> tile code
    iteration,  \* physics path: iterations of _separate_rooms started so far
    exitReason, \* physics path: why the separation loop was left
    room_id,    \* adjacency path: the id the placement loop is working on
    cluster,    \* adjacency path: the loop variables of _generate_cluster_rooms
    placement_grid,  \* adjacency path: the cells marked in placement_grid
    adjacency_graph, \* adjacency path: self.adjacency_graph, [nodes, edges]
    main_rooms, \* graph stage: self.main_rooms, a list of [id, center]
    graph,      \* graph stage: self.graph, [nodes, edges]
    mst_graph,  \* graph stage: the tree _create_minimum_spanning_tree returned
    possible,   \* WFC: possible[i][j], cell <<i, j>> -> set of pattern indices
    output,     \* WFC: output[i, j], cell <<i, j>> -> pattern index or -1
    stack,      \* WFC: the stack of the running propagate call
    tilemap,    \* WFC: the tilemap returned by run
    method,     \* manager: the method (or algorithm) argument of generate_layout
    kwargs,     \* manager: the keyword overrides, key -> value
    layout,     \* manager: what generate_layout returned or raised
    py_random,  \* the state of the generator of the module random
    np_random,  \* the state of the global generator of numpy.random
    runs,       \* the room lists of the generate calls that have returned
    requests,   \* the generate calls running at once on one generator:
                \* request -> its position, the rooms it made, its result
    room_map,   \* agent: the room map handed to parse_design_room
    model_response, \* agent: the response of the model
    mapped_room, \* agent: what parse_design_room returned or raised
    pair_wall,  \* doors: the shared-wall list of an adjacent pair
    door_positions,  \* doors: the slice of the shared wall that became the door
    tasks,      \* async design: task index -> state of the room-design request
    semaphore,  \* async design: the value of the asyncio.Semaphore
    completed,  \* async design: the task indices in order of completion
    designed_rooms,  \* async design: what _design_dungeon_async returned or raised
    num_generations, \* chat_parsed: failed attempts so far
    last_exc,   \* chat_parsed: the exception of the last failed attempt
    last_resp,  \* chat_parsed: the last response self.chat returned
    calls,      \* chat_parsed: the (system, user) prompts sent to self.chat
    outcome     \* chat_parsed: what the call returned or raised

physVars == <<iteration, exitReason>>
adjVars == <<room_id, cluster, placement_grid, adjacency_graph>>

graphVars == <<main_rooms, graph, mst_graph>>
wfcVars == <<possible, output, stack, tilemap>>
mgrVars == <<method, kwargs, layout>>
rngVars == <<py_random, np_random, runs, requests>>
agentVars == <<room_map, model_response, mapped_room>>
doorVars == <<pair_wall, door_positions>>
asyncVars == <<tasks, semaphore, completed, designed_rooms>>
chatVars == <<num_generations, last_exc, last_resp, calls, outcome>>
callVars == <<doorVars, asyncVars, chatVars>>

vars == <<pc, rooms, params, grid, physVars, adjVars, graphVars, wfcVars, mgrVars,
          rngVars, agentVars, callVars>>

\* the variables a path does not use
OutsidePhys == <<adjVars, graphVars, wfcVars, mgrVars, rngVars, agentVars, callVars>>
OutsideAdj == <<physVars, graphVars, wfcVars, mgrVars, rngVars, agentVars, callVars>>
OutsideGraph == <<rooms, grid, physVars, adjVars, wfcVars, mgrVars, rngVars, agentVars, callVars>>
OutsideWfc == <<rooms, grid, physVars, adjVars, graphVars, mgrVars, rngVars, agentVars, callVars>>
OutsideMgr == <<rooms, grid, physVars, adjVars, graphVars, wfcVars, rngVars, agentVars, callVars>>
OutsideRuns == <<grid, physVars, adjVars, graphVars, wfcVars, mgrVars, requests, agentVars, callVars>>
OutsideRequests == <<grid, physVars, adjVars, graphVars, wfcVars, mgrVars, runs, agentVars, callVars>>
OutsideAgent ==
    <<rooms, params, grid, physVars, adjVars, graphVars, wfcVars, mgrVars, rngVars,
      callVars>>
OutsidePoly ==
    <<grid, physVars, cluster, placement_grid, adjacency_graph, main_rooms, mst_graph,
      wfcVars, method, kwargs, rngVars, agentVars, callVars>>
OutsideCalls ==
    <<rooms, grid, physVars, adjVars, graphVars, wfcVars, mgrVars, rngVars, agentVars>>
OutsideDoor == <<OutsideCalls, asyncVars, chatVars>>
OutsideAsync == <<OutsideCalls, doorVars, chatVars>>
OutsideChat == <<OutsideCalls, doorVars, asyncVars>>

-----------------------------------------------------------------------------
(* Bounds of the model *)

\* grid width and height handed to the generator's constructor
GridW == 5
GridH == 5
\* largest value of params.max_physics_iterations tried
MaxIterCap == 3

\* ids of the rooms generated: range(params.num_rooms)
RoomIds == 0 .. 2
\* side lengths that _generate_rooms_in_circle may draw (separation runs are
\* explored with square rooms)
RoomSides == {1, 2}

-----------------------------------------------------------------------------
(* Arithmetic helpers *)

\* the value of a path's variables while another path runs
NoCluster == [cluster_id |-> 0, slot |-> 0, cluster_x |-> 0, cluster_y |-> 0]
EmptyGraph == [nodes |-> {}, edges |-> {}]

\* np.zeros((height, width), dtype=int)
ZeroGrid(width, height) == [c \in (0 .. (width - 1)) \X (0 .. (height - 1)) |-> 0]

\* the variables of a path that is not running
IdlePhys == iteration = 0 /\ exitReason = "none"
IdleAdj ==
    room_id = 0 /\ cluster = NoCluster /\ placement_grid = {} /\ adjacency_graph = EmptyGraph
IdleGraph == main_rooms = <<>> /\ graph = EmptyGraph /\ mst_graph = EmptyGraph
IdleWfc == possible = <<>> /\ output = <<>> /\ stack = <<>> /\ tilemap = <<>>
NoLayout == [kind |-> "none"]
IdleMgr == method = "none" /\ kwargs = <<>> /\ layout = NoLayout
IdleRng == py_random = 0 /\ np_random = 0 /\ runs = <<>> /\ requests = <<>>
IdleAgent == room_map = <<>> /\ model_response = <<>> /\ mapped_room = <<>>
IdleDoor == pair_wall = <<>> /\ door_positions = <<>>
IdleAsync == tasks = <<>> /\ semaphore = 0 /\ completed = <<>> /\ designed_rooms = <<>>
IdleChat ==
    /\ num_generations = 0 /\ last_exc = <<>> /\ last_resp = <<>> /\ calls = <<>>
    /\ outcome = <<>>
IdleCalls == IdleDoor /\ IdleAsync /\ IdleChat

Max(a, b) == IF a >= b THEN a ELSE b
Min(a, b) == IF a <= b THEN a ELSE b
Abs(a) == IF a >= 0 THEN a ELSE -a

\* floor(sqrt(n)) by bisection on [lo, hi]
RECURSIVE ISqrtIn(_, _, _)
ISqrtIn(n, lo, hi) ==
    IF lo >= hi THEN lo
    ELSE LET mid == (lo + hi + 1) \div 2
         IN  IF mid * mid <= n THEN ISqrtIn(n, mid, hi) ELSE ISqrtIn(n, lo, mid - 1)

\* fixed-point resolution of a force component: units per tile
ForceScale == 1000

-----------------------------------------------------------------------------
(* PhysicsRoom and PhysicsLayoutParams *)

\* PhysicsLayoutParams.tile_size, grid_edge_margin (defaults)
TileSize == 1
GridEdgeMargin == 1
\* PhysicsLayoutParams.convergence_threshold = 0.1, in ForceScale units
ConvergenceThreshold == 100

\* PhysicsLayoutParams: the fields the model reads.  Ratios are in percent.
\* room_size_mean is set to the size of the rooms the model draws; the other
\* fields hold the defaults of the dataclass.
PhysicsLayoutParams(cap) ==
    [max_physics_iterations |-> cap,
     room_size_mean |-> 2,
     main_room_threshold |-> 125,
     min_main_rooms |-> 3,
     main_room_selection_ratio |-> 30]

\* a variant of PhysicsRoom.overlaps that is off by one on the x axis: rooms
\* sharing one column of cells count as separate
OverlapsOffByOne(a, b) ==
    ~ (  a.x + a.width <= b.x + 1
      \/ b.x + b.width <= a.x + 1
      \/ a.y + a.height <= b.y
      \/ b.y + b.height <= a.y )

\* PhysicsRoom.overlaps
Overlaps(a, b) ==
    ~ (  a.x + a.width <= b.x
      \/ b.x + b.width <= a.x
      \/ a.y + a.height <= b.y
      \/ b.y + b.height <= a.y )

\* PhysicsRoom.center, doubled so that it stays a whole number
Center2(r) == <<2 * r.x + r.width, 2 * r.y + r.height>>

\* _round_to_tile on a value given in ForceScale units; the result is in tiles
RoundToTile(nScaled, tile) ==
    ((nScaled + (tile - 1) * ForceScale) \div (tile * ForceScale)) * tile

\* the clamp "keep in bounds" of _generate_rooms_in_circle and _separate_rooms
ClampToGrid(v, size, extent) ==
    Max(GridEdgeMargin, Min(extent - size - GridEdgeMargin, v))

\* One component of the force that a room at doubled offset (d, e) from an
\* overlapping room receives: (d / distance) * separation_force with
\* distance = max(0.1, sqrt(d*d + e*e)); separation_force = 1.0.
\* Coinciding centres give d = 0, hence force 0.
ForceComponent(d, e) ==
    IF d = 0 THEN 0
    ELSE LET mag == ISqrtIn((ForceScale * ForceScale * d * d) \div (d * d + e * e),
                            0, ForceScale)
         IN  IF d > 0 THEN mag ELSE -mag

\* the force accumulated on room i over all rooms j it overlaps
RECURSIVE ForceSum(_, _, _, _)
ForceSum(rs, i, js, axis) ==
    IF js = {} THEN 0
    ELSE LET j == CHOOSE k \in js : TRUE
             d == Center2(rs[i])[1] - Center2(rs[j])[1]
             e == Center2(rs[i])[2] - Center2(rs[j])[2]
             f == IF i # j /\ Overlaps(rs[i], rs[j])
                  THEN (IF axis = 1 THEN ForceComponent(d, e) ELSE ForceComponent(e, d))
                  ELSE 0
         IN  f + ForceSum(rs, i, js \ {j}, axis)

AnyOverlap(rs) == \E i, j \in DOMAIN rs : i # j /\ Overlaps(rs[i], rs[j])

\* the room after "apply forces": add, snap to the tile grid, keep in bounds
MovedRoom(rs, i) ==
    LET fx == ForceSum(rs, i, DOMAIN rs, 1)
        fy == ForceSum(rs, i, DOMAIN rs, 2)
        nx == ClampToGrid(RoundToTile(rs[i].x * ForceScale + fx, TileSize), rs[i].width, GridW)
        ny == ClampToGrid(RoundToTile(rs[i].y * ForceScale + fy, TileSize), rs[i].height, GridH)
    IN  [rs[i] EXCEPT !.x = nx, !.y = ny]

\* a measure of movement that reports none
NoMovement(old, new) == 0

\* movement of _separate_rooms: abs(x - old_x) + abs(y - old_y)
Movement(old, new) == Abs(new.x - old.x) + Abs(new.y - old.y)

RECURSIVE MaxOver(_, _)
MaxOver(f, S) ==
    IF S = {} THEN 0
    ELSE LET s == CHOOSE k \in S : TRUE IN Max(f[s], MaxOver(f, S \ {s}))

-----------------------------------------------------------------------------
(* PhysicsLayoutGenerator.generate_tinykep_layout *)

\* _generate_rooms_in_circle: every room gets a drawn size and a drawn
\* position that is clamped into the grid margins
NewRoom(i, x, y, w, h) ==
    [id |-> i,
     x |-> ClampToGrid(x, w, GridW), y |-> ClampToGrid(y, h, GridH),
     width |-> w, height |-> h, is_main |-> FALSE, is_hallway |-> FALSE]

\* the rooms (id left open) that one pass of the generation loop can append
GeneratedRooms ==
    { NewRoom(0, x, y, s, s) : x \in 0 .. (GridW - 1), y \in 0 .. (GridH - 1), s \in RoomSides }

InitPhys ==
    /\ pc = "separate"
    /\ \E gen \in [RoomIds -> GeneratedRooms] :
          rooms = [i \in RoomIds |-> [gen[i] EXCEPT !.id = i]]
    /\ iteration = 0
    /\ exitReason = "none"
    /\ \E cap \in 0 .. MaxIterCap : params = PhysicsLayoutParams(cap)
    /\ grid = ZeroGrid(GridW, GridH)
    /\ IdleAdj /\ IdleGraph /\ IdleWfc /\ IdleMgr /\ IdleRng /\ IdleAgent /\ IdleCalls

\* one iteration of the loop of _separate_rooms
SeparateIteration ==
    /\ pc = "separate"
    /\ iteration < params.max_physics_iterations
    /\ LET moved == [i \in DOMAIN rooms |-> MovedRoom(rooms, i)]
           maxMovement == MaxOver([i \in DOMAIN rooms |-> Movement(rooms[i], moved[i])],
                                  DOMAIN rooms)
           anyOverlap == AnyOverlap(rooms)
       IN  /\ rooms' = moved
           /\ iteration' = iteration + 1
           /\ IF ~anyOverlap
              THEN pc' = "separated" /\ exitReason' = "no_overlap"
              ELSE IF maxMovement * ForceScale < ConvergenceThreshold
              THEN pc' = "separated" /\ exitReason' = "converged"
              ELSE pc' = pc /\ exitReason' = exitReason
    /\ UNCHANGED <<params, grid, OutsidePhys>>

\* the loop of _separate_rooms runs out of iterations
SeparateCap ==
    /\ pc = "separate"
    /\ iteration >= params.max_physics_iterations
    /\ pc' = "separated"
    /\ exitReason' = "cap"
    /\ UNCHANGED <<rooms, iteration, params, grid, OutsidePhys>>

\* position of room i in sorted(self.rooms, key=area, reverse=True): the sort is
\* stable, so rooms of equal area keep their list order
AreaRank(rs, i) ==
    Cardinality({ j \in DOMAIN rs :
        \/ rs[j].width * rs[j].height > rs[i].width * rs[i].height
        \/ rs[j].width * rs[j].height = rs[i].width * rs[i].height /\ j < i })

\* _select_main_rooms: the is_main flag of every room
SelectMainRooms(rs, p) ==
    LET meets(i) == /\ rs[i].width * 100 >= p.room_size_mean * p.main_room_threshold
                    /\ rs[i].height * 100 >= p.room_size_mean * p.main_room_threshold
        byThreshold == { i \in DOMAIN rs : meets(i) }
        n == Cardinality(DOMAIN rs)
        numToSelect == Max(p.min_main_rooms, (n * p.main_room_selection_ratio) \div 100)
    IN  IF Cardinality(byThreshold) < p.min_main_rooms /\ n > 0
        THEN [i \in DOMAIN rs |-> [rs[i] EXCEPT !.is_main = AreaRank(rs, i) < Min(numToSelect, n)]]
        ELSE [i \in DOMAIN rs |-> [rs[i] EXCEPT !.is_main = meets(i)]]

SelectMain ==
    /\ pc = "separated"
    /\ rooms' = SelectMainRooms(rooms, params)
    /\ pc' = "selected"
    /\ UNCHANGED <<iteration, exitReason, params, grid, OutsidePhys>>

NextPhys ==
    \/ SeparateIteration
    \/ SeparateCap
    \/ SelectMain

SpecPhys == InitPhys /\ [][NextPhys]_vars

-----------------------------------------------------------------------------
(* RoomGeometry (room_shapes.py), for shapes with whole-number corners *)

\* A geometry is a record
\*   shape   "rectangle" or "polyomino"
\*   bounds  [min_x, max_x, min_y, max_y]
\*   poly    the polygon, as the set of unit squares <<x, y>> (lower corner) it is
\*           the union of
\*   cells   polyomino_cells (the empty set stands for None)
\* center is the centroid of the polygon and is derived from poly.

\* RoomGeometry.from_rectangle
FromRectangle(x, y, w, h) ==
    [shape |-> "rectangle",
     bounds |-> [min_x |-> x, max_x |-> x + w, min_y |-> y, max_y |-> y + h],
     poly |-> (x .. (x + w - 1)) \X (y .. (y + h - 1)),
     cells |-> {}]

\* the extreme coordinate of a non-empty set of whole numbers
SetMin(S) == CHOOSE m \in S : \A n \in S : m <= n
SetMax(S) == CHOOSE m \in S : \A n \in S : m >= n

\* RoomGeometry.from_polyomino: offsets are the (dx, dy) of the unit cells
FromPolyomino(x, y, offsets) ==
    LET actual == { <<x + o[1], y + o[2]>> : o \in offsets }
    IN  [shape |-> "polyomino",
         bounds |-> [min_x |-> SetMin({ c[1] : c \in actual }),
                     max_x |-> SetMax({ c[1] + 1 : c \in actual }),
                     min_y |-> SetMin({ c[2] : c \in actual }),
                     max_y |-> SetMax({ c[2] + 1 : c \in actual })],
         poly |-> actual,
         cells |-> actual]

\* shapely.affinity.translate applied to the polygon
TranslateCells(cs, dx, dy) == { <<c[1] + dx, c[2] + dy>> : c \in cs }

\* the in-place translation of _constrain_to_grid: polygon, center and bounds
\* are replaced, polyomino_cells is left as it was
Translated(g, dx, dy) ==
    [g EXCEPT !.poly = TranslateCells(g.poly, dx, dy),
              !.bounds = [min_x |-> g.bounds.min_x + dx, max_x |-> g.bounds.max_x + dx,
                          min_y |-> g.bounds.min_y + dy, max_y |-> g.bounds.max_y + dy]]

\* RoomGeometry.overlaps: polygon.intersects, true as soon as the closed
\* polygons share a point (an edge or a corner is enough)
GeomOverlaps(g1, g2) ==
    \E c1 \in g1.poly, c2 \in g2.poly :
        Abs(c1[1] - c2[1]) <= 1 /\ Abs(c1[2] - c2[2]) <= 1

\* RoomGeometry.get_grid_points
GetGridPoints(g) ==
    IF g.shape = "polyomino" /\ g.cells # {}
    THEN g.cells
    ELSE { c \in (g.bounds.min_x .. g.bounds.max_x) \X (g.bounds.min_y .. g.bounds.max_y) :
               c \in g.poly }

\* RoomGeometry.get_perimeter_points
GetPerimeterPoints(g) ==
    LET all == GetGridPoints(g)
    IN  { c \in all : \E n \in { <<c[1] + 1, c[2]>>, <<c[1] - 1, c[2]>>,
                                  <<c[1], c[2] + 1>>, <<c[1], c[2] - 1>> } : n \notin all }

\* RoomGeometry.area
GeomArea(g) == Cardinality(g.poly)

RECURSIVE SumOver(_, _)
SumOver(f, S) ==
    IF S = {} THEN 0
    ELSE LET s == CHOOSE k \in S : TRUE IN f[s] + SumOver(f, S \ {s})

\* <<int(center[0]), int(center[1])>>: the centroid of the polygon is the mean
\* of the centres of its unit squares
CenterCell(g) ==
    LET n == Cardinality(g.poly)
        sx == SumOver([c \in g.poly |-> 2 * c[1] + 1], g.poly)
        sy == SumOver([c \in g.poly |-> 2 * c[2] + 1], g.poly)
    IN  <<sx \div (2 * n), sy \div (2 * n)>>

-----------------------------------------------------------------------------
(* Shape generation (RoomShapeGenerator, PolyominoGenerator) *)

\* PolyominoGenerator.TETROMINOES['O'] and PolyominoGenerator.PENTOMINOES['V']
TetrominoO == { <<0, 0>>, <<0, 1>>, <<1, 0>>, <<1, 1>> }
PentominoV == { <<0, 0>>, <<0, 1>>, <<0, 2>>, <<1, 2>>, <<2, 2>> }

\* PolyominoGenerator.normalize_polyomino
NormalizePolyomino(cells) ==
    LET min_x == SetMin({ c[1] : c \in cells })
        min_y == SetMin({ c[2] : c \in cells })
    IN  { <<c[1] - min_x, c[2] - min_y>> : c \in cells }

\* PolyominoGenerator.rotate_polyomino
RECURSIVE RotatePolyomino(_, _)
RotatePolyomino(cells, rotations) ==
    IF rotations % 4 = 0 THEN cells
    ELSE RotatePolyomino(NormalizePolyomino({ <<c[2], -c[1]>> : c \in cells }),
                         (rotations % 4) - 1)

\* whole-number target areas and aspect ratios (in tenths) that the normal and
\* uniform draws of a placement attempt are sampled at
AreaSamples == {1, 4, 5}
AspectSamples == {7, 10, 15}

\* the cell lists the POLYOMINO branch of generate_random_shape draws for
\* size = max(1, int(target_area)): the O tetromino for 4 and the V pentomino
\* in its four rotations for 5; polyominoes of other sizes are not sampled
PolyominoDraws(a) ==
    LET size == Max(1, a)
    IN  IF size = 4 THEN { TetrominoO }
        ELSE IF size = 5 THEN { RotatePolyomino(PentominoV, r) : r \in 0 .. 3 }
        ELSE {}

\* RoomShapeGenerator.generate_random_shape with shape_preferences that give
\* weight to RECTANGLE and POLYOMINO only: the geometries it can return.  A
\* draw with int(sqrt(target_area * aspect_ratio)) = 0 divides by zero and
\* returns nothing.
GenerateRandomShape(x, y, a) ==
    { FromRectangle(x, y, ISqrtIn((a * r) \div 10, 0, a),
                    a \div ISqrtIn((a * r) \div 10, 0, a)) :
          r \in { q \in AspectSamples : a * q >= 10 } }
    \cup { FromPolyomino(x, y, c) : c \in PolyominoDraws(a) }

-----------------------------------------------------------------------------
(* AdjacentRoomLayoutGenerator (adjacent_room_generator.py) *)

\* width and height handed to the constructor
AdjWidth == 6
AdjHeight == 6

\* AdjacentRoomLayoutParams; door_probability and main_room_threshold in
\* hundredths
AdjacentRoomLayoutParams(num_rooms, min_main_rooms, strategy, door_probability) ==
    [num_rooms |-> num_rooms, room_size_mean |-> 2, room_size_min |-> 1, room_size_max |-> 2,
     placement_strategy |-> strategy,
     main_room_threshold |-> 125, min_main_rooms |-> min_main_rooms,
     door_probability |-> door_probability,
     min_door_length |-> 1, max_door_length |-> 3,
     place_walls |-> TRUE, place_doors |-> TRUE, room_interior_fill |-> TRUE]

\* AdjacentRoom(id=id, geometry=g); doors holds the coordinates of the door list
AdjacentRoom(id, g) == [id |-> id, geometry |-> g, is_main |-> FALSE, doors |-> {}]

InAdjGrid(c) == 0 <= c[1] /\ c[1] < AdjWidth /\ 0 <= c[2] /\ c[2] < AdjHeight

\* AdjacentRoom.is_adjacent with the default tolerance 1.5
IsAdjacent(b1, b2) ==
    \/ /\ \/ 2 * Abs(b1.max_x - b2.min_x) <= 3
          \/ 2 * Abs(b2.max_x - b1.min_x) <= 3
       /\ ~(b1.max_y <= b2.min_y \/ b2.max_y <= b1.min_y)
    \/ /\ \/ 2 * Abs(b1.max_y - b2.min_y) <= 3
          \/ 2 * Abs(b2.max_y - b1.min_y) <= 3
       /\ ~(b1.max_x <= b2.min_x \/ b2.max_x <= b1.min_x)

\* [(fixed, v) for v in range(lo, hi)] and [(v, fixed) for v in range(lo, hi)]
WallColumn(wall_x, lo, hi) == [k \in 1 .. Max(0, hi - lo) |-> <<wall_x, lo + k - 1>>]
WallRow(wall_y, lo, hi) == [k \in 1 .. Max(0, hi - lo) |-> <<lo + k - 1, wall_y>>]

\* AdjacentRoom.get_shared_wall: the coordinate list, <<>> for None.  Bounds
\* are whole numbers, so a difference of at most 0.1 is a difference of 0.
GetSharedWall(b1, b2) ==
    LET start_y == Max(b1.min_y, b2.min_y)
        end_y == Min(b1.max_y, b2.max_y)
        start_x == Max(b1.min_x, b2.min_x)
        end_x == Min(b1.max_x, b2.max_x)
        horizontal == IF b1.max_x = b2.min_x THEN WallColumn(b1.max_x, start_y, end_y)
                      ELSE IF b2.max_x = b1.min_x THEN WallColumn(b2.max_x, start_y, end_y)
                      ELSE <<>>
    IN  IF ~IsAdjacent(b1, b2) THEN <<>>
        ELSE IF b1.max_y = b2.min_y THEN WallRow(b1.max_y, start_x, end_x)
        ELSE IF b2.max_y = b1.min_y THEN WallRow(b2.max_y, start_x, end_x)
        ELSE horizontal

\* _constrain_to_grid
ConstrainToGrid(g) ==
    LET b == g.bounds
        shift_x == IF b.min_x < 1 THEN 1 - b.min_x
                   ELSE IF b.max_x >= AdjWidth - 1 THEN (AdjWidth - 2) - b.max_x
                   ELSE 0
        shift_y == IF b.min_y < 1 THEN 1 - b.min_y
                   ELSE IF b.max_y >= AdjHeight - 1 THEN (AdjHeight - 2) - b.max_y
                   ELSE 0
    IN  IF shift_x # 0 \/ shift_y # 0 THEN Translated(g, shift_x, shift_y) ELSE g

\* the boundary test shared by _is_valid_placement and _is_room_placement_valid
InsideMargin(b) ==
    ~(b.min_x < 1 \/ b.max_x >= AdjWidth - 1 \/ b.min_y < 1 \/ b.max_y >= AdjHeight - 1)

\* _is_valid_placement
IsValidPlacement(g, pg) ==
    /\ InsideMargin(g.bounds)
    /\ \A c \in GetGridPoints(g) : InAdjGrid(c) => c \notin pg

\* _mark_placement_grid
MarkPlacementGrid(g, pg) == pg \cup { c \in GetGridPoints(g) : InAdjGrid(c) }

\* _is_room_placement_valid
IsRoomPlacementValid(g, rs) ==
    /\ InsideMargin(g.bounds)
    /\ \A k \in DOMAIN rs : ~GeomOverlaps(g, rs[k].geometry)

\* _find_adjacent_position: the positions it can return
FindAdjacentPosition(rs, pg, p) ==
    LET directions(b) == { <<b.max_x + 1, b.min_y>>, <<b.min_x - p.room_size_mean, b.min_y>>,
                           <<b.min_x, b.max_y + 1>>, <<b.min_x, b.min_y - p.room_size_mean>> }
        adjacent_positions ==
            { d \in UNION { directions(rs[k].geometry.bounds) : k \in DOMAIN rs } :
                /\ 2 <= d[1] /\ d[1] < AdjWidth - p.room_size_max
                /\ 2 <= d[2] /\ d[2] < AdjHeight - p.room_size_max
                /\ <<Min(d[1], AdjWidth - 1), Min(d[2], AdjHeight - 1)>> \notin pg }
        near(b) == ((b.min_x - 3) .. (b.max_x + 3)) \X ((b.min_y - 3) .. (b.max_y + 3))
        edge_positions ==
            { c \in UNION { near(rs[k].geometry.bounds) : k \in DOMAIN rs } :
                InAdjGrid(c) /\ c \notin pg }
    IN  IF Len(rs) = 0 THEN { <<AdjWidth \div 2, AdjHeight \div 2>> }
        ELSE adjacent_positions
             \cup (IF edge_positions # {} THEN edge_positions
                   ELSE (2 .. (AdjWidth - 3)) \X (2 .. (AdjHeight - 3)))

\* the geometries one attempt of _generate_grid_fill_rooms can hand to
\* _is_valid_placement for room rid
GridFillAttempts(rs, pg, rid, p) ==
    LET positions == IF rid = 0 THEN { <<AdjWidth \div 2, AdjHeight \div 2>> }
                     ELSE FindAdjacentPosition(rs, pg, p)
        target_areas == { Max(p.room_size_min * p.room_size_min,
                              Min(p.room_size_max * p.room_size_max, a)) : a \in AreaSamples }
    IN  { ConstrainToGrid(g) :
            g \in UNION { GenerateRandomShape(pos[1], pos[2], a) :
                              pos \in positions, a \in target_areas } }

\* the geometries _generate_adjacent_room can test at one of its positions
AdjacentRoomPositions(parent, p) ==
    LET b == parent.geometry.bounds
    IN  { <<b.max_x, b.min_y>>, <<b.min_x - p.room_size_mean, b.min_y>>,
          <<b.min_x, b.max_y>>, <<b.min_x, b.min_y - p.room_size_mean>> }

AdjacentRoomAttempts(pos) ==
    { ConstrainToGrid(g) : g \in UNION { GenerateRandomShape(pos[1], pos[2], a) : a \in AreaSamples } }

\* the state after AdjacentRoomLayoutGenerator(AdjWidth, AdjHeight) and the
\* _reset of a generate_layout call with the given num_rooms and min_main_rooms
InitAdjFor(num_rooms, min_main_rooms) ==
    /\ \E strategy \in {"grid_fill", "organic_growth", "cluster"}, dp \in {80, 100} :
          /\ params = AdjacentRoomLayoutParams(num_rooms, min_main_rooms, strategy, dp)
          /\ pc = strategy
    /\ rooms = <<>>
    /\ grid = ZeroGrid(AdjWidth, AdjHeight)
    /\ room_id = 0
    /\ cluster = NoCluster
    /\ placement_grid = {}
    /\ adjacency_graph = EmptyGraph
    /\ IdlePhys /\ IdleGraph /\ IdleWfc /\ IdleMgr /\ IdleRng /\ IdleAgent /\ IdleCalls

InitAdj == InitAdjFor(3, 2)

\* _generate_grid_fill_rooms: an attempt for room_id passes _is_valid_placement
GridFillPlace ==
    /\ pc = "grid_fill"
    /\ room_id < params.num_rooms
    /\ \E g \in GridFillAttempts(rooms, placement_grid, room_id, params) :
          /\ IsValidPlacement(g, placement_grid)
          /\ rooms' = Append(rooms, AdjacentRoom(room_id, g))
          /\ placement_grid' = MarkPlacementGrid(g, placement_grid)
    /\ room_id' = room_id + 1
    /\ UNCHANGED <<pc, params, cluster, adjacency_graph, grid, OutsideAdj>>

\* a placement loop that stops at the first room it cannot place
GridFillAbort ==
    /\ pc = "grid_fill"
    /\ room_id < params.num_rooms
    /\ (\E g \in GridFillAttempts(rooms, placement_grid, room_id, params) :
           ~IsValidPlacement(g, placement_grid)) = TRUE
    /\ pc' = "aborted"
    /\ UNCHANGED <<rooms, params, room_id, cluster, placement_grid, adjacency_graph, grid, OutsideAdj>>

\* _generate_grid_fill_rooms: all max_attempts attempts for room_id fail (each
\* attempt draws afresh, so they can all fail as soon as one can) and the loop
\* moves on to the next id
GridFillGiveUp ==
    /\ pc = "grid_fill"
    /\ room_id < params.num_rooms
    /\ (\E g \in GridFillAttempts(rooms, placement_grid, room_id, params) :
           ~IsValidPlacement(g, placement_grid)) = TRUE
    /\ room_id' = room_id + 1
    /\ UNCHANGED <<pc, rooms, params, cluster, placement_grid, adjacency_graph, grid, OutsideAdj>>

\* _generate_organic_growth_rooms: the seed room, appended without
\* _constrain_to_grid and without a validity test
OrganicSeed ==
    /\ pc = "organic_growth"
    /\ room_id = 0
    /\ \E g \in GenerateRandomShape(AdjWidth \div 2, AdjHeight \div 2,
                                    params.room_size_mean * params.room_size_mean) :
          rooms' = <<AdjacentRoom(0, g)>>
    /\ room_id' = 1
    /\ UNCHANGED <<pc, params, cluster, placement_grid, adjacency_graph, grid, OutsideAdj>>

\* _generate_organic_growth_rooms: _generate_adjacent_room returns a room (the
\* positions are shuffled, so any valid one can be the first one reached)
OrganicGrow ==
    /\ pc = "organic_growth"
    /\ 1 <= room_id /\ room_id < params.num_rooms
    /\ \E k \in DOMAIN rooms :
          \E pos \in AdjacentRoomPositions(rooms[k], params) :
             \E g \in AdjacentRoomAttempts(pos) :
                /\ IsRoomPlacementValid(g, rooms)
                /\ rooms' = Append(rooms, AdjacentRoom(room_id, g))
    /\ room_id' = room_id + 1
    /\ UNCHANGED <<pc, params, cluster, placement_grid, adjacency_graph, grid, OutsideAdj>>

\* _generate_organic_growth_rooms: _generate_adjacent_room returns None, the
\* geometry drawn at each of the four positions being invalid
OrganicSkip ==
    /\ pc = "organic_growth"
    /\ 1 <= room_id /\ room_id < params.num_rooms
    /\ (\E k \in DOMAIN rooms :
           \A pos \in AdjacentRoomPositions(rooms[k], params) :
              \E g \in AdjacentRoomAttempts(pos) : ~IsRoomPlacementValid(g, rooms)) = TRUE
    /\ room_id' = room_id + 1
    /\ UNCHANGED <<pc, rooms, params, cluster, placement_grid, adjacency_graph, grid, OutsideAdj>>

\* _generate_cluster_rooms: num_clusters and rooms_per_cluster
NumClusters(p) == Max(2, p.num_rooms \div 8)
RoomsPerCluster(p) == p.num_rooms \div NumClusters(p)

\* one pass of the inner loop of _generate_cluster_rooms, the first pass of a
\* cluster drawing the cluster centre; the geometry tested and the loop
\* variables after the pass
ClusterCentres(p) ==
    IF cluster.slot = 0
    THEN (p.room_size_max .. (AdjWidth - p.room_size_max))
         \X (p.room_size_max .. (AdjHeight - p.room_size_max))
    ELSE { <<cluster.cluster_x, cluster.cluster_y>> }

ClusterAttempts(centre, p) ==
    { ConstrainToGrid(g) :
        g \in UNION { GenerateRandomShape(centre[1] + ox, centre[2] + oy, a) :
                          ox \in (-p.room_size_mean) .. p.room_size_mean,
                          oy \in (-p.room_size_mean) .. p.room_size_mean,
                          a \in AreaSamples } }

ClusterAdvance(centre, p) ==
    IF cluster.slot + 1 >= RoomsPerCluster(p)
    THEN [cluster_id |-> cluster.cluster_id + 1, slot |-> 0, cluster_x |-> 0, cluster_y |-> 0]
    ELSE [cluster_id |-> cluster.cluster_id, slot |-> cluster.slot + 1,
          cluster_x |-> centre[1], cluster_y |-> centre[2]]

\* _generate_cluster_rooms: the geometry of a pass is valid and is appended
ClusterPlace ==
    /\ pc = "cluster"
    /\ cluster.cluster_id < NumClusters(params)
    /\ room_id < params.num_rooms
    /\ \E centre \in ClusterCentres(params) :
          /\ \E g \in ClusterAttempts(centre, params) :
                /\ IsRoomPlacementValid(g, rooms)
                /\ rooms' = Append(rooms, AdjacentRoom(room_id, g))
          /\ cluster' = ClusterAdvance(centre, params)
    /\ room_id' = room_id + 1
    /\ UNCHANGED <<pc, params, placement_grid, adjacency_graph, grid, OutsideAdj>>

\* _generate_cluster_rooms: the geometry of a pass is invalid and is dropped
ClusterReject ==
    /\ pc = "cluster"
    /\ cluster.cluster_id < NumClusters(params)
    /\ room_id < params.num_rooms
    /\ \E centre \in ClusterCentres(params) :
          /\ (\E g \in ClusterAttempts(centre, params) : ~IsRoomPlacementValid(g, rooms)) = TRUE
          /\ cluster' = ClusterAdvance(centre, params)
    /\ UNCHANGED <<pc, rooms, params, room_id, placement_grid, adjacency_graph, grid, OutsideAdj>>

\* the placement loop of the chosen strategy has ended
PlacementDone ==
    IF pc = "cluster"
    THEN cluster.cluster_id >= NumClusters(params) \/ room_id >= params.num_rooms
    ELSE pc \in {"grid_fill", "organic_growth"} /\ room_id >= params.num_rooms

\* _build_adjacency_graph
BuildAdjacencyGraph(rs) ==
    [nodes |-> { rs[k].id : k \in DOMAIN rs },
     edges |-> { {rs[i].id, rs[j].id} : <<i, j>> \in
                   { e \in (DOMAIN rs) \X (DOMAIN rs) :
                       e[1] < e[2] /\ IsAdjacent(rs[e[1]].geometry.bounds,
                                                 rs[e[2]].geometry.bounds) } }]

BuildGraph ==
    /\ PlacementDone
    /\ adjacency_graph' = BuildAdjacencyGraph(rooms)
    /\ pc' = "graph_built"
    /\ UNCHANGED <<rooms, params, room_id, cluster, placement_grid, grid, OutsideAdj>>

\* len(list(self.adjacency_graph.neighbors(id)))
Connectivity(g, id) == Cardinality({ e \in g.edges : id \in e })

\* a selection that stops after the size test
SelectMainBySizeOnly(rs, g, p) ==
    [k \in DOMAIN rs |->
        [rs[k] EXCEPT !.is_main =
            GeomArea(rs[k].geometry) * 10000
                >= (p.room_size_mean * p.main_room_threshold)
                   * (p.room_size_mean * p.main_room_threshold)]]

\* _select_main_rooms of the adjacency path: the is_main flag of every room.
\* score is held doubled: 2 * area * (1 + connectivity * 0.5).
SelectMainRoomsAdj(rs, g, p) ==
    LET bySize == { k \in DOMAIN rs :
                      GeomArea(rs[k].geometry) * 10000
                          >= (p.room_size_mean * p.main_room_threshold)
                             * (p.room_size_mean * p.main_room_threshold) }
        rest == DOMAIN rs \ bySize
        score(k) == GeomArea(rs[k].geometry) * (2 + Connectivity(g, rs[k].id))
        \* position in room_scores after the stable descending sort
        rank(k) == Cardinality({ j \in rest : score(j) > score(k)
                                               \/ (score(j) = score(k) /\ j < k) })
        needed == p.min_main_rooms - Cardinality(bySize)
    IN  [k \in DOMAIN rs |->
            [rs[k] EXCEPT !.is_main =
                \/ k \in bySize
                \/ Cardinality(bySize) < p.min_main_rooms /\ rank(k) < needed]]

SelectMainAdj ==
    /\ pc = "graph_built"
    /\ rooms' = SelectMainRoomsAdj(rooms, adjacency_graph, params)
    /\ pc' = "main_selected"
    /\ UNCHANGED <<params, adjVars, grid, OutsideAdj>>

\* a door window that starts at the first coordinate of the shared wall
DoorWindowFromStart(shared_wall, p) ==
    LET n == Len(shared_wall)
        door_length == Min(p.max_door_length, Max(p.min_door_length, n \div 3))
    IN  [start_idx |-> 0, end_idx |-> Min(n, door_length)]

\* _place_doors_between_adjacent_rooms: start_idx and end_idx of the slice
\* shared_wall[start_idx:end_idx]
DoorWindow(shared_wall, p) ==
    LET n == Len(shared_wall)
        door_length == Min(p.max_door_length, Max(p.min_door_length, n \div 3))
        mid_point == n \div 2
        start_idx == Max(0, mid_point - door_length \div 2)
    IN  [start_idx |-> start_idx, end_idx |-> Min(n, start_idx + door_length)]

\* _place_doors_between_adjacent_rooms: the door positions for one shared wall
DoorPositions(shared_wall, p) ==
    LET window == DoorWindow(shared_wall, p)
    IN  { shared_wall[k] : k \in (window.start_idx + 1) .. window.end_idx }

\* room k is room1 only: a door placement that extends one list of the pair
ExtendsFirstRoomOnly(k, i, j) == k = i

\* whether the door positions of the pair (room1, room2) = (rs[i], rs[j]) are
\* added to the door list of rs[k]: room1.doors.extend, room2.doors.extend
ExtendsDoorsOf(k, i, j) == k = i \/ k = j

\* _place_doors_between_adjacent_rooms: the rooms after the loop, chosen being
\* the edges (as pairs of list positions, room1 first) for which
\* random.random() < door_probability came out true
PlaceDoorsBetweenAdjacentRooms(rs, chosen, p) ==
    [k \in DOMAIN rs |->
        [rs[k] EXCEPT !.doors =
            rs[k].doors \cup
            UNION { DoorPositions(GetSharedWall(rs[e[1]].geometry.bounds,
                                                rs[e[2]].geometry.bounds), p) :
                      e \in { c \in chosen : ExtendsDoorsOf(k, c[1], c[2]) } }]]

\* the edges of the graph as pairs of list positions, in the order in which
\* _build_adjacency_graph added their ends
EdgePairs(rs, g) ==
    { e \in (DOMAIN rs) \X (DOMAIN rs) : e[1] < e[2] /\ {rs[e[1]].id, rs[e[2]].id} \in g.edges }

PlaceDoors ==
    /\ pc = "main_selected"
    /\ \E chosen \in SUBSET EdgePairs(rooms, adjacency_graph) :
          /\ params.door_probability >= 100 => chosen = EdgePairs(rooms, adjacency_graph)
          /\ rooms' = PlaceDoorsBetweenAdjacentRooms(rooms, chosen, params)
    /\ pc' = "doors_placed"
    /\ UNCHANGED <<params, adjVars, grid, OutsideAdj>>

\* the codes _place_room_on_grid draws the centre marker of a main room from
MainRoomCodes == 6 .. 11

\* _place_room_on_grid of the adjacency path; marker is the value that
\* random.choice returns if the room is a main room
PlaceRoomOnGridAdj(gr, room, marker, p) ==
    LET room_points == GetGridPoints(room.geometry)
        perimeter_points == GetPerimeterPoints(room.geometry)
        filled == [c \in DOMAIN gr |->
                      IF p.room_interior_fill /\ c \in room_points THEN 1 ELSE gr[c]]
        walled == [c \in DOMAIN gr |->
                      IF p.place_walls /\ c \in perimeter_points /\ filled[c] = 0
                      THEN 2 ELSE filled[c]]
        centre == CenterCell(room.geometry)
    IN  [c \in DOMAIN gr |->
            IF c = centre THEN (IF room.is_main THEN marker ELSE 5) ELSE walled[c]]

\* the loop "for room in self.rooms: self._place_room_on_grid(room, params)"
\* over the first n rooms; markers[k] is the draw made for room k
RECURSIVE PlaceRoomsAdj(_, _, _, _, _)
PlaceRoomsAdj(gr, rs, n, markers, p) ==
    IF n = 0 THEN gr
    ELSE PlaceRoomOnGridAdj(PlaceRoomsAdj(gr, rs, n - 1, markers, p), rs[n], markers[n], p)

\* a variant of _create_final_grid that paints the doors before the rooms
CreateFinalGridDoorsFirst(rs, markers, p) ==
    LET doors == UNION { rs[k].doors : k \in DOMAIN rs }
        doored == [c \in DOMAIN ZeroGrid(AdjWidth, AdjHeight) |->
                     IF p.place_doors /\ c \in doors THEN 4 ELSE 0]
    IN  PlaceRoomsAdj(doored, rs, Len(rs), markers, p)

\* _create_final_grid of the adjacency path
CreateFinalGridAdj(rs, markers, p) ==
    LET placed == PlaceRoomsAdj(ZeroGrid(AdjWidth, AdjHeight), rs, Len(rs), markers, p)
        doors == UNION { rs[k].doors : k \in DOMAIN rs }
    IN  [c \in DOMAIN placed |-> IF p.place_doors /\ c \in doors THEN 4 ELSE placed[c]]

\* step 5 of generate_layout
CreateFinalGrid ==
    /\ pc = "doors_placed"
    /\ \E markers \in [DOMAIN rooms -> MainRoomCodes] :
          /\ \A k \in DOMAIN rooms : ~rooms[k].is_main => markers[k] = 6
          /\ grid' = CreateFinalGridAdj(rooms, markers, params)
    /\ pc' = "done"
    /\ UNCHANGED <<rooms, params, adjVars, OutsideAdj>>

\* _create_final_grid is run once more on the finished layout
CreateFinalGridAgain ==
    /\ pc = "done"
    /\ \E markers \in [DOMAIN rooms -> MainRoomCodes] :
          /\ \A k \in DOMAIN rooms : ~rooms[k].is_main => markers[k] = 6
          /\ grid' = CreateFinalGridAdj(rooms, markers, params)
    /\ UNCHANGED <<pc, rooms, params, adjVars, OutsideAdj>>

NextAdj ==
    \/ GridFillPlace
    \/ GridFillGiveUp
    \/ OrganicSeed
    \/ OrganicGrow
    \/ OrganicSkip
    \/ ClusterPlace
    \/ ClusterReject
    \/ BuildGraph
    \/ SelectMainAdj
    \/ PlaceDoors

\* steps 1 to 4 of generate_layout, for three rooms of which two are main rooms
SpecAdj == InitAdj /\ [][NextAdj]_vars

\* the whole of generate_layout, for two rooms of which one is a main room
InitAdjGrid == InitAdjFor(2, 1)

NextAdjGrid ==
    \/ NextAdj
    \/ CreateFinalGrid
    \/ CreateFinalGridAgain

SpecAdjGrid == InitAdjGrid /\ [][NextAdjGrid]_vars

-----------------------------------------------------------------------------
(* The graph stage of PhysicsLayoutGenerator and                            *)
(* EnhancedPhysicsLayoutGenerator: triangulation, spanning tree,            *)
(* reconnection.  The stage is a function of self.main_rooms and of the     *)
(* random sample of reconnection; it is explored for every list of up to    *)
(* four main rooms with centres on a small lattice.                         *)

\* the numbers of main rooms and the room centres explored
MainCounts == 1 .. 4
CentrePoints == (0 .. 2) \X (0 .. 1)

\* the graph-stage fields of PhysicsLayoutParams / EnhancedPhysicsLayoutParams;
\* edge_reconnect_percent in hundredths
GraphParams(generator, edge_reconnect_percent) ==
    [generator |-> generator,
     delaunay_triangulation |-> TRUE, min_triangulation_rooms |-> 3,
     edge_reconnect_percent |-> edge_reconnect_percent,
     max_additional_connections |-> 2]

\* twice the signed area of the triangle a, b, c
Orient(a, b, c) == (b[1] - a[1]) * (c[2] - a[2]) - (b[2] - a[2]) * (c[1] - a[1])

\* the in-circle determinant of a, b, c, d
InCircleDet(a, b, c, d) ==
    LET adx == a[1] - d[1]  ady == a[2] - d[2]
        bdx == b[1] - d[1]  bdy == b[2] - d[2]
        cdx == c[1] - d[1]  cdy == c[2] - d[2]
    IN  (adx * adx + ady * ady) * (bdx * cdy - cdx * bdy)
        - (bdx * bdx + bdy * bdy) * (adx * cdy - cdx * ady)
        + (cdx * cdx + cdy * cdy) * (adx * bdy - bdx * ady)

\* d lies strictly inside the circle through a, b, c
InCircumcircle(a, b, c, d) == InCircleDet(a, b, c, d) * Orient(a, b, c) > 0

\* the triangles t and u (sets of three list positions, points pts) have no
\* interior point in common: a side of one of them separates them
InteriorsDisjoint(pts, t, u) ==
    LET separates(tri, other) ==
            \E a, b \in tri : a # b /\
                LET c == CHOOSE v \in tri : v # a /\ v # b
                IN  \A v \in other :
                        Orient(pts[a], pts[b], pts[v]) * Orient(pts[a], pts[b], pts[c]) <= 0
    IN  separates(t, u) \/ separates(u, t)

\* scipy.spatial.Delaunay(points).simplices: the sets of simplices it can
\* return, the empty set standing for a QhullError.  Of several points at the
\* same place one enters the triangulation; fewer than three distinct points
\* or points on one line raise QhullError; of points on one circle any
\* triangulation can come out.
DelaunaySimplices(pts) ==
    LET idx == DOMAIN pts
        kept == { K \in SUBSET idx :
                    /\ \A i \in idx : \E k \in K : pts[k] = pts[i]
                    /\ \A k, l \in K : pts[k] = pts[l] => k = l }
        candidates(K) ==
            { t \in SUBSET K :
                /\ Cardinality(t) = 3
                /\ \E a, b, c \in t :
                      /\ Orient(pts[a], pts[b], pts[c]) # 0
                      /\ \A d \in K \ t : ~InCircumcircle(pts[a], pts[b], pts[c], pts[d]) }
        planar(T) == \A t, u \in T : t # u => InteriorsDisjoint(pts, t, u)
        triangulations(K) ==
            { T \in SUBSET candidates(K) :
                /\ T # {}
                /\ planar(T)
                /\ \A t \in candidates(K) \ T : ~planar(T \cup {t}) }
    IN  UNION { triangulations(K) : K \in kept }

\* the pairs of ids joined by the simplices
SimplexEdges(mr, T) ==
    { {mr[a].id, mr[b].id} : <<a, b>> \in
        { e \in (DOMAIN mr) \X (DOMAIN mr) : e[1] # e[2] /\ \E t \in T : e[1] \in t /\ e[2] \in t } }

\* euclidean(center1, center2) squared, for the ends of an edge
Weight2(mr, e) ==
    LET a == CHOOSE k \in DOMAIN mr : mr[k].id \in e
        b == CHOOSE k \in DOMAIN mr : mr[k].id \in e /\ k # a
    IN  (mr[a].center[1] - mr[b].center[1]) * (mr[a].center[1] - mr[b].center[1])
        + (mr[a].center[2] - mr[b].center[2]) * (mr[a].center[2] - mr[b].center[2])

\* the nodes that edges E join to the nodes in seen
RECURSIVE Reach(_, _)
Reach(E, seen) ==
    LET next == seen \cup UNION { e \in E : e \cap seen # {} }
    IN  IF next = seen THEN seen ELSE Reach(E, next)

\* the graph [nodes, edges] is connected (a graph without nodes is not)
IsConnected(g) ==
    /\ g.nodes # {}
    /\ \A n \in g.nodes : Reach(g.edges, {n}) \cap g.nodes = g.nodes

\* the state after _select_main_rooms of a run whose graph is still empty
InitGraph ==
    /\ pc = "main_rooms_selected"
    /\ \E generator \in {"physics", "enhanced"}, percent \in {10, 100}, most \in {1, 2} :
          params = [GraphParams(generator, percent) EXCEPT !.max_additional_connections = most]
    /\ \E n \in MainCounts :
          \E centres \in [1 .. n -> CentrePoints] :
             main_rooms = [k \in 1 .. n |-> [id |-> k - 1, center |-> centres[k]]]
    /\ graph = EmptyGraph
    /\ mst_graph = EmptyGraph
    /\ rooms = <<>>
    /\ grid = ZeroGrid(GridW, GridH)
    /\ IdlePhys /\ IdleAdj /\ IdleWfc /\ IdleMgr /\ IdleRng /\ IdleAgent /\ IdleCalls

\* the linear fallback of PhysicsLayoutGenerator._create_delaunay_graph: nodes
\* enter the graph only as the ends of the edges added
LinearChain(mr) ==
    LET edges == { {mr[k].id, mr[k + 1].id} : k \in 1 .. (Len(mr) - 1) }
    IN  [nodes |-> UNION edges, edges |-> edges]

\* _create_delaunay_graph returns without calling Delaunay
CreateGraphWithoutTriangulation ==
    /\ pc = "main_rooms_selected"
    /\ \/ ~params.delaunay_triangulation
       \/ Len(main_rooms) < params.min_triangulation_rooms
    /\ graph' = IF params.generator = "physics" THEN LinearChain(main_rooms) ELSE graph
    /\ pc' = "graph_created"
    /\ UNCHANGED <<params, main_rooms, mst_graph, OutsideGraph>>

\* _create_delaunay_graph builds the graph from the simplices.  The physics
\* generator adds every main room as a node first, the enhanced generator adds
\* edges only.
CreateDelaunayGraph ==
    /\ pc = "main_rooms_selected"
    /\ params.delaunay_triangulation
    /\ Len(main_rooms) >= params.min_triangulation_rooms
    /\ \E T \in DelaunaySimplices([k \in DOMAIN main_rooms |-> main_rooms[k].center]) :
          LET edges == SimplexEdges(main_rooms, T)
          IN  graph' = [nodes |-> IF params.generator = "physics"
                                  THEN { main_rooms[k].id : k \in DOMAIN main_rooms }
                                  ELSE UNION edges,
                        edges |-> edges]
    /\ pc' = "graph_created"
    /\ UNCHANGED <<params, main_rooms, mst_graph, OutsideGraph>>

\* Delaunay raises QhullError and the generate call ends with the exception
DelaunayFails ==
    /\ pc = "main_rooms_selected"
    /\ params.delaunay_triangulation
    /\ Len(main_rooms) >= params.min_triangulation_rooms
    /\ DelaunaySimplices([k \in DOMAIN main_rooms |-> main_rooms[k].center]) = {}
    /\ pc' = "QhullError"
    /\ UNCHANGED <<params, main_rooms, graph, mst_graph, OutsideGraph>>

\* nx.minimum_spanning_tree: the spanning forests of g that it can return.  A
\* spanning forest is minimal exactly if no edge outside it is lighter than an
\* edge of the tree path between its ends; the enhanced generator stores no
\* weight, so every edge weighs 1.
MinimumSpanningTrees(g, mr, weighted) ==
    LET w(e) == IF weighted THEN Weight2(mr, e) ELSE 1
    IN  { F \in SUBSET g.edges :
            /\ \A n \in g.nodes : Reach(F, {n}) = Reach(g.edges, {n})
            /\ \A f \in F : \E n \in f : ~(f \subseteq Reach(F \ {f}, {n}))
            /\ \A e \in g.edges \ F :
                  \A f \in F : (\E n \in e : ~(e \subseteq Reach(F \ {f}, {n}))) => w(f) <= w(e) }

\* _create_minimum_spanning_tree
CreateMinimumSpanningTree ==
    /\ pc = "graph_created"
    /\ IF graph.edges = {}
       THEN mst_graph' = graph
       ELSE \E F \in MinimumSpanningTrees(graph, main_rooms, params.generator = "physics") :
               mst_graph' = [nodes |-> graph.nodes, edges |-> F]
    /\ pc' = "mst_created"
    /\ UNCHANGED <<params, main_rooms, graph, OutsideGraph>>

\* the number of edges _add_reconnection_edges samples; only the physics
\* generator applies max_additional_connections
NumToAdd(removed, p) ==
    LET share == (Cardinality(removed) * p.edge_reconnect_percent) \div 100
    IN  IF p.generator = "physics"
        THEN Min(Min(share, p.max_additional_connections), Cardinality(removed))
        ELSE Min(share, Cardinality(removed))

\* _add_reconnection_edges
AddReconnectionEdges ==
    /\ pc = "mst_created"
    /\ LET removed == graph.edges \ mst_graph.edges
       IN  \E edges_to_add \in SUBSET removed :
              /\ Cardinality(edges_to_add) = NumToAdd(removed, params)
              /\ graph' = [nodes |-> mst_graph.nodes, edges |-> mst_graph.edges \cup edges_to_add]
    /\ pc' = "graph_done"
    /\ UNCHANGED <<params, main_rooms, mst_graph, OutsideGraph>>

NextGraph ==
    \/ CreateGraphWithoutTriangulation
    \/ CreateDelaunayGraph
    \/ DelaunayFails
    \/ CreateMinimumSpanningTree
    \/ AddReconnectionEdges

SpecGraph == InitGraph /\ [][NextGraph]_vars

-----------------------------------------------------------------------------
(* The whole of PhysicsLayoutGenerator.generate_tinykep_layout: separation, *)
(* main rooms, graph stage, corridors and the final grid.  Room centres are *)
(* kept doubled (Center2), so that they stay whole numbers.                 *)

\* the positions _get_random_point_in_circle is explored with in this path
SpawnPoints == (1 .. 2) \X (1 .. 2)

\* PhysicsLayoutParams with the fields of every stage; corridor_width is set
\* to 1, corridor_style and the flags hold the defaults of the dataclass, and
\* corridor_intersection_buffer = 1.0 is doubled like the centres
PhysicsGridParams(cap, min_main_rooms, edge_reconnect_percent) ==
    [max_physics_iterations |-> cap,
     room_size_mean |-> 2,
     main_room_threshold |-> 125,
     min_main_rooms |-> min_main_rooms,
     main_room_selection_ratio |-> 30,
     generator |-> "physics",
     delaunay_triangulation |-> TRUE, min_triangulation_rooms |-> 3,
     edge_reconnect_percent |-> edge_reconnect_percent,
     max_additional_connections |-> 2,
     corridor_width |-> 1, corridor_style |-> "L_shaped",
     corridor_intersection_buffer |-> 2,
     place_walls |-> TRUE, room_interior_fill |-> TRUE]

\* self.rooms after _generate_rooms_in_circle, with three rooms
InitPhysGrid ==
    /\ pc = "separate"
    /\ \E gen \in [RoomIds -> { NewRoom(0, c[1], c[2], s, s) : c \in SpawnPoints, s \in RoomSides }] :
          rooms = [i \in RoomIds |-> [gen[i] EXCEPT !.id = i]]
    /\ iteration = 0
    /\ exitReason = "none"
    /\ \E cap \in {0, MaxIterCap}, m \in {2, 3} : params = PhysicsGridParams(cap, m, 100)
    /\ grid = ZeroGrid(GridW, GridH)
    /\ IdleAdj /\ IdleGraph /\ IdleWfc /\ IdleMgr /\ IdleRng /\ IdleAgent /\ IdleCalls

\* self.main_rooms after _select_main_rooms, as the list of room ids: the
\* rooms that meet the threshold in list order, or the largest rooms in the
\* order of the sort
MainRoomIds(rs, p) ==
    LET sel == SelectMainRooms(rs, p)
        main == { i \in DOMAIN rs : sel[i].is_main }
        met == { i \in DOMAIN rs :
                   /\ rs[i].width * 100 >= p.room_size_mean * p.main_room_threshold
                   /\ rs[i].height * 100 >= p.room_size_mean * p.main_room_threshold }
        sorted == Cardinality(met) < p.min_main_rooms
        pos(i) == IF sorted THEN AreaRank(rs, i)
                  ELSE Cardinality({ j \in main : j < i })
    IN  [k \in 1 .. Cardinality(main) |-> CHOOSE i \in main : pos(i) = k - 1]

\* step 3 of generate_tinykep_layout
SelectMainRoomsPhys ==
    /\ pc = "separated"
    /\ rooms' = SelectMainRooms(rooms, params)
    /\ LET ids == MainRoomIds(rooms, params)
       IN  main_rooms' = [k \in DOMAIN ids |->
                             [id |-> ids[k], center |-> Center2(rooms[ids[k]])]]
    /\ pc' = "main_rooms_selected"
    /\ UNCHANGED <<iteration, exitReason, params, grid, graph, mst_graph,
                   adjVars, wfcVars, mgrVars, rngVars, agentVars, callVars>>

\* _create_corridor_between_rooms for corridor_style "L_shaped"; the ends of
\* a corridor are doubled
CreateCorridorBetweenRooms(room1, room2) ==
    LET c1 == Center2(room1)
        c2 == Center2(room2)
    IN  IF Abs(c1[2] - c2[2]) <= Max(room1.height, room2.height)
        THEN { [start |-> c1, end |-> <<c2[1], c1[2]>>, direction |-> "horizontal"] }
        ELSE IF Abs(c1[1] - c2[1]) <= Max(room1.width, room2.width)
        THEN { [start |-> c1, end |-> <<c1[1], c2[2]>>, direction |-> "vertical"] }
        ELSE { [start |-> c1, end |-> <<c2[1], c1[2]>>, direction |-> "horizontal"],
               [start |-> <<c2[1], c1[2]>>, end |-> c2, direction |-> "vertical"] }

\* _create_corridors: graph.edges() reports an edge from the node that
\* entered the graph first, that is from the room earlier in self.main_rooms
CreateCorridors(rs, g, mr) ==
    UNION { CreateCorridorBetweenRooms(rs[mr[a].id], rs[mr[b].id]) :
              <<a, b>> \in { e \in (DOMAIN mr) \X (DOMAIN mr) :
                               e[1] < e[2] /\ {mr[e[1]].id, mr[e[2]].id} \in g.edges } }

\* _find_intersecting_rooms: room lies in the buffered bounding box of corridor
IntersectsCorridor(room, corridor, p) ==
    LET min_x == Min(corridor.start[1], corridor.end[1]) - p.corridor_intersection_buffer
        max_x == Max(corridor.start[1], corridor.end[1]) + p.corridor_intersection_buffer
        min_y == Min(corridor.start[2], corridor.end[2]) - p.corridor_intersection_buffer
        max_y == Max(corridor.start[2], corridor.end[2]) + p.corridor_intersection_buffer
    IN  /\ 2 * room.x < max_x /\ 2 * (room.x + room.width) > min_x
        /\ 2 * room.y < max_y /\ 2 * (room.y + room.height) > min_y

\* _create_corridor_rooms
CreateCorridorRooms(rs, corridors, p) ==
    [i \in DOMAIN rs |->
        IF /\ ~rs[i].is_main /\ ~rs[i].is_hallway
           /\ \E corridor \in corridors : IntersectsCorridor(rs[i], corridor, p)
        THEN [rs[i] EXCEPT !.is_hallway = TRUE] ELSE rs[i]]

\* PhysicsLayoutGenerator._place_room_on_grid; marker is the value
\* random.choice returns for a main room
PlaceRoomOnGrid(gr, room, is_main, marker, p) ==
    LET x_start == Max(0, room.x)
        y_start == Max(0, room.y)
        x_end == Min(GridW, room.x + room.width)
        y_end == Min(GridH, room.y + room.height)
        inRoom(c) == c[1] >= x_start /\ c[1] < x_end /\ c[2] >= y_start /\ c[2] < y_end
        onEdge(c) == \/ c[2] = y_start \/ c[2] = y_end - 1
                     \/ c[1] = x_start \/ c[1] = x_end - 1
        filled == [c \in DOMAIN gr |->
                     IF ~inRoom(c) THEN gr[c]
                     ELSE IF p.place_walls /\ onEdge(c)
                     THEN (IF gr[c] = 0 THEN 2 ELSE gr[c])
                     ELSE IF p.room_interior_fill THEN 1 ELSE gr[c]]
        centre == <<room.x + (room.width \div 2), room.y + (room.height \div 2)>>
    IN  [c \in DOMAIN gr |->
            IF c = centre THEN (IF is_main THEN marker ELSE 3) ELSE filled[c]]

\* "for room in self.rooms: if <flag>: self._place_room_on_grid(...)" over the
\* rooms with an id below n; flag is "is_main" or "is_hallway"
RECURSIVE PlaceRooms(_, _, _, _, _, _)
PlaceRooms(gr, rs, n, flag, markers, p) ==
    IF n = 0 THEN gr
    ELSE LET before == PlaceRooms(gr, rs, n - 1, flag, markers, p)
             room == rs[n - 1]
         IN  IF rs[n - 1][flag]
             THEN PlaceRoomOnGrid(before, room, flag = "is_main", markers[n - 1], p)
             ELSE before

\* the cells _draw_horizontal_corridor and _draw_vertical_corridor visit for
\* one corridor; int() of a doubled coordinate is its half, rounded down
CorridorCells(corridor, p) ==
    LET half_width == p.corridor_width \div 2
        sx == corridor.start[1] \div 2
        ex == corridor.end[1] \div 2
        sy == corridor.start[2] \div 2
        ey == corridor.end[2] \div 2
    IN  IF corridor.direction = "horizontal"
        THEN { <<x, sy + d>> : x \in Min(sx, ex) .. Max(sx, ex), d \in (-half_width) .. half_width }
        ELSE { <<sx + d, y>> : y \in Min(sy, ey) .. Max(sy, ey), d \in (-half_width) .. half_width }

\* a variant of _draw_corridors that writes the corridor tile onto every cell
\* it visits
DrawCorridorsOver(gr, corridors, p) ==
    LET cells == UNION { CorridorCells(corridor, p) : corridor \in corridors }
    IN  [c \in DOMAIN gr |-> IF c \in cells THEN 3 ELSE gr[c]]

\* _draw_corridors: corridor tiles go onto empty cells only
DrawCorridors(gr, corridors, p) ==
    LET cells == UNION { CorridorCells(corridor, p) : corridor \in corridors }
    IN  [c \in DOMAIN gr |-> IF c \in cells /\ gr[c] = 0 THEN 3 ELSE gr[c]]

\* steps 7 and 8 of generate_tinykep_layout: _create_corridors and
\* _create_final_grid
CreateCorridorsAndFinalGrid ==
    /\ pc = "graph_done"
    /\ rooms # <<>>
    /\ LET corridors == CreateCorridors(rooms, graph, main_rooms)
           flagged == CreateCorridorRooms(rooms, corridors, params)
           n == Cardinality(DOMAIN rooms)
       IN  /\ rooms' = flagged
           /\ \E markers \in [DOMAIN rooms -> MainRoomCodes] :
                 /\ \A i \in DOMAIN rooms : ~rooms[i].is_main => markers[i] = 6
                 /\ grid' = DrawCorridors(
                               PlaceRooms(PlaceRooms(ZeroGrid(GridW, GridH), rooms, n,
                                                     "is_main", markers, params),
                                          flagged, n, "is_hallway", markers, params),
                               corridors, params)
    /\ pc' = "tinykep_done"
    /\ UNCHANGED <<iteration, exitReason, params, adjVars, graphVars, wfcVars, mgrVars, rngVars,
                   agentVars, callVars>>

NextPhysGrid ==
    \/ SeparateIteration
    \/ SeparateCap
    \/ SelectMainRoomsPhys
    \/ NextGraph
    \/ CreateCorridorsAndFinalGrid

SpecPhysGrid == InitPhysGrid /\ [][NextPhysGrid]_vars

-----------------------------------------------------------------------------
(* WaveFunctionCollapse (src/engine/image_scene_synthesis/wfc.py) *)

\* output_size = (OutH, OutW)
OutH == 2
OutW == 2

\* the samples explored: all grids of SampleCells over Tiles
Tiles == {0, 1}
SampleCells == (0 .. 2) \X (0 .. 2)

\* WaveFunctionCollapse(pattern_size=2, output_size=(OutH, OutW)) and the
\* sample handed to run

OutCells == (0 .. (OutH - 1)) \X (0 .. (OutW - 1))

\* _extract_patterns: the list of flattened windows, rows first
ExtractPatterns(sample, ps) ==
    LET h == 1 + SetMax({ c[1] : c \in DOMAIN sample })
        w == 1 + SetMax({ c[2] : c \in DOMAIN sample })
        rows == h - ps + 1
        cols == w - ps + 1
        window(i, j) == [k \in 1 .. (ps * ps) |-> sample[<<i + ((k - 1) \div ps), j + ((k - 1) % ps)>>]]
    IN  IF rows <= 0 \/ cols <= 0 THEN <<>>
        ELSE [n \in 1 .. (rows * cols) |-> window((n - 1) \div cols, (n - 1) % cols)]

\* list(Counter(patterns).keys()): the patterns in order of first occurrence
RECURSIVE UniquePatterns(_)
UniquePatterns(patterns) ==
    IF patterns = <<>> THEN <<>>
    ELSE LET front == UniquePatterns(SubSeq(patterns, 1, Len(patterns) - 1))
             last == patterns[Len(patterns)]
         IN  IF \E k \in DOMAIN front : front[k] = last THEN front ELSE Append(front, last)

\* _build_adjacency_rules: adjacency[(unique[p1], direction)] as a set of
\* pattern indices (0-based, as in possible and output); the dictionary has
\* keys for 'right' and 'down' only, a missing key is the empty set
AdjacencyRules(unique, ps, p1, direction) ==
    LET a == unique[p1 + 1]
    IN  IF direction = "right"
        THEN { p2 \in 0 .. (Len(unique) - 1) :
                 \A k \in 0 .. (ps - 1) : a[ps + k * ps] = unique[p2 + 1][1 + k * ps] }
        ELSE IF direction = "down"
        THEN { p2 \in 0 .. (Len(unique) - 1) :
                 \A k \in 0 .. (ps - 1) : a[ps * ps - ps + k + 1] = unique[p2 + 1][k + 1] }
        ELSE {}

\* the arguments of the constructor and of run, and unique_patterns, the
\* local that run computes from the sample before its loop
WfcParams(sample) ==
    [pattern_size |-> 2, output_size |-> <<OutH, OutW>>, sample |-> sample,
     unique_patterns |-> UniquePatterns(ExtractPatterns(sample, 2))]

\* unique_patterns of the run
Unique == params.unique_patterns

\* adjacency, with the patterns of the run
Rules(p1, direction) == AdjacencyRules(Unique, params.pattern_size, p1, direction)

InitWfc ==
    /\ pc = "observe"
    /\ \E sample \in [SampleCells -> Tiles] : params = WfcParams(sample)
    /\ output = [c \in OutCells |-> -1]
    /\ possible = [c \in OutCells |-> 0 .. (Len(Unique) - 1)]
    /\ stack = <<>>
    /\ tilemap = <<>>
    /\ rooms = <<>>
    /\ grid = ZeroGrid(GridW, GridH)
    /\ IdlePhys /\ IdleAdj /\ IdleGraph /\ IdleMgr /\ IdleRng /\ IdleAgent /\ IdleCalls

\* observe(): the cells it scans for, and the one it returns (the first in
\* row order among those with the fewest choices)
Observable == { c \in OutCells : output[c] = -1 /\ Cardinality(possible[c]) > 1 }

Observe ==
    CHOOSE c \in Observable :
        \A d \in Observable :
            \/ Cardinality(possible[c]) < Cardinality(possible[d])
            \/ /\ Cardinality(possible[c]) = Cardinality(possible[d])
               /\ (c[1] < d[1] \/ (c[1] = d[1] /\ c[2] <= d[2]))

\* one pass of the main loop up to the call of propagate: observe returns a
\* cell, random.choices picks one of its patterns (every weight is positive)
Collapse ==
    /\ pc = "observe"
    /\ Observable # {}
    /\ \E chosen \in possible[Observe] :
          /\ output' = [output EXCEPT ![Observe] = chosen]
          /\ possible' = [possible EXCEPT ![Observe] = {chosen}]
    /\ stack' = <<Observe>>
    /\ pc' = "propagate"
    /\ UNCHANGED <<params, tilemap, OutsideWfc>>

\* the directions of propagate in the order of its loop
Directions ==
    << [name |-> "right", di |-> 0, dj |-> 1], [name |-> "down", di |-> 1, dj |-> 0],
       [name |-> "left", di |-> 0, dj |-> -1], [name |-> "up", di |-> -1, dj |-> 0] >>

\* new_possible for the neighbour n of cell c in the given direction
NewPossible(poss, c, n, direction) ==
    { p2 \in poss[n] : \E p1 \in poss[c] : p2 \in Rules(p1, direction) }

\* the body of "while stack" for the cell c just popped, directions k .. 4:
\* the pair <<possible, stack>> after it
RECURSIVE PropagateFrom(_, _, _, _)
PropagateFrom(poss, stk, c, k) ==
    IF k > Len(Directions) THEN <<poss, stk>>
    ELSE LET d == Directions[k]
             n == <<c[1] + d.di, c[2] + d.dj>>
         IN  IF n \in OutCells /\ output[n] = -1
             THEN LET new_possible == NewPossible(poss, c, n, d.name)
                  IN  IF new_possible # {} /\ new_possible # poss[n]
                      THEN PropagateFrom([poss EXCEPT ![n] = new_possible],
                                         Append(stk, n), c, k + 1)
                      ELSE PropagateFrom(poss, stk, c, k + 1)
             ELSE PropagateFrom(poss, stk, c, k + 1)

\* an iteration of "while stack" that reads the last cell of the stack and
\* leaves it on the stack
PropagateWithoutPop ==
    /\ pc = "propagate"
    /\ stack # <<>>
    /\ LET c == stack[Len(stack)]
           after == PropagateFrom(possible, stack, c, 1)
       IN  /\ possible' = after[1]
           /\ stack' = after[2]
    /\ UNCHANGED <<pc, params, output, tilemap, OutsideWfc>>

\* propagate: one iteration of "while stack"
PropagateStep ==
    /\ pc = "propagate"
    /\ stack # <<>>
    /\ LET c == stack[Len(stack)]
           after == PropagateFrom(possible, SubSeq(stack, 1, Len(stack) - 1), c, 1)
       IN  /\ possible' = after[1]
           /\ stack' = after[2]
    /\ UNCHANGED <<pc, params, output, tilemap, OutsideWfc>>

\* propagate returns
PropagateReturn ==
    /\ pc = "propagate"
    /\ stack = <<>>
    /\ pc' = "observe"
    /\ UNCHANGED <<params, possible, output, stack, tilemap, OutsideWfc>>

\* the centre tile of a pattern: pattern_arr[center, center]
CenterTile(pattern, ps) == pattern[(ps \div 2) * ps + (ps \div 2) + 1]

\* observe returns None: the loop is left and the tilemap is built
Finish ==
    /\ pc = "observe"
    /\ Observable = {}
    /\ tilemap' = [c \in OutCells |->
                      IF output[c] # -1
                      THEN CenterTile(Unique[output[c] + 1], params.pattern_size)
                      ELSE 0]
    /\ pc' = "returned"
    /\ UNCHANGED <<params, possible, output, stack, OutsideWfc>>

NextWfc ==
    \/ Collapse
    \/ PropagateStep
    \/ PropagateReturn
    \/ Finish

SpecWFC == InitWfc /\ [][NextWfc]_vars

\* run is a sequential loop: a call that can take a step takes it
SpecWFCFair == SpecWFC /\ WF_vars(NextWfc)

-----------------------------------------------------------------------------
(* LayoutManager (layout_manager.py) and LayoutSystem (layout_system.py).    *)
(* A parameter object is the function from its attribute names to their     *)
(* values; of each class the attributes that occur in KeyNames are kept.    *)
(* door_probability is held in percent.                                     *)

\* the values of the members of the LayoutMethod enumeration
LayoutMethod ==
    {"graph_linear", "graph_hub", "graph_branching", "graph_loop",
     "physics_tinykep", "enhanced_physics", "adjacent_rooms"}

\* the names generate_layout is called with: the members of LayoutMethod, the
\* algorithm of LayoutSystem, and a name neither of them knows
MethodNames == LayoutMethod \cup {"polyomino", "wfc"}

\* the keyword names a call is made with: fields of the parameter classes and
\* a name that is an attribute of none of them
KeyNames ==
    {"min_rooms", "hub_max_branches", "num_rooms", "door_probability",
     "rooms", "no_such_field"}

\* the values a keyword or a field of a given parameter object is set to
OverrideValues == {1, 2}

\* the most keywords one call passes
MaxKwargs == 2

\* params = None
None == [None |-> TRUE]

\* the attributes of a freshly constructed parameter object
DefaultParams(class) ==
    CASE class = "LinearParams" -> [min_rooms |-> 6]
      [] class = "HubParams" -> [min_rooms |-> 5, hub_max_branches |-> 6]
      [] class = "BranchingParams" -> [min_rooms |-> 8]
      [] class = "LoopParams" -> [min_rooms |-> 7]
      [] class = "GraphLayoutParams" -> [min_rooms |-> 5]
      [] class = "PhysicsLayoutParams" -> [num_rooms |-> 50]
      [] class = "EnhancedPhysicsLayoutParams" -> [num_rooms |-> 50]
      [] class = "AdjacentRoomLayoutParams" ->
            [num_rooms |-> 20, door_probability |-> 80]
      [] class = "LayoutParams" -> [rooms |-> 8]

\* hasattr(params, key)
HasAttr(p, key) == key \in DOMAIN p

\* a loop that sets every keyword on the object, whether the object has the
\* attribute or not
SetEveryKwarg(p, kw) ==
    [key \in DOMAIN p \cup DOMAIN kw |->
        IF key \in DOMAIN kw THEN kw[key] ELSE p[key]]

\* for key, value in kwargs.items(): if hasattr(params, key): setattr(...)
OverrideWithKwargs(p, kw) ==
    [key \in DOMAIN p |->
        IF key \in DOMAIN kw /\ HasAttr(p, key) THEN kw[key] ELSE p[key]]

\* method.value.split('_')[1]
MethodType(m) ==
    CASE m = "graph_linear" -> "linear"
      [] m = "graph_hub" -> "hub"
      [] m = "graph_branching" -> "branching"
      [] m = "graph_loop" -> "loop"

CreateGraphParams(method_type, kw) ==
    LET class == CASE method_type = "linear" -> "LinearParams"
                   [] method_type = "hub" -> "HubParams"
                   [] method_type = "branching" -> "BranchingParams"
                   [] method_type = "loop" -> "LoopParams"
                   [] OTHER -> "GraphLayoutParams"
    IN  OverrideWithKwargs(DefaultParams(class), kw)

CreatePhysicsParams(kw) ==
    OverrideWithKwargs(DefaultParams("PhysicsLayoutParams"), kw)

CreateEnhancedPhysicsParams(kw) ==
    OverrideWithKwargs(DefaultParams("EnhancedPhysicsLayoutParams"), kw)

CreateAdjacentRoomParams(kw) ==
    OverrideWithKwargs(DefaultParams("AdjacentRoomLayoutParams"), kw)

\* _merge_params: the overrides go onto a deep copy of the given object
MergeParams(p, kw) == OverrideWithKwargs(p, kw)

\* the object get_default_params returns for a member of LayoutMethod
GetDefaultParams(m) ==
    CASE m \in {"graph_linear", "graph_hub", "graph_branching", "graph_loop"} ->
            CreateGraphParams(MethodType(m), <<>>)
      [] m = "physics_tinykep" -> DefaultParams("PhysicsLayoutParams")
      [] m = "enhanced_physics" -> DefaultParams("EnhancedPhysicsLayoutParams")
      [] m = "adjacent_rooms" -> DefaultParams("AdjacentRoomLayoutParams")

\* the dictionary _format_output builds from what the generator returned
FormatOutput(m) == [kind |-> "layout", algorithm |-> m]

\* an exception that leaves generate_layout
Raised(exception) == [kind |-> "error", error |-> exception]

\* **kwargs of a call: at most MaxKwargs keywords
KwargsChoices ==
    UNION {[keys -> OverrideValues] :
             keys \in {ks \in SUBSET KeyNames : Cardinality(ks) <= MaxKwargs}}

\* the params argument of a call of LayoutManager.generate_layout: None, or
\* an object of the class of the method with one field set by the caller
ParamsChoices(m) ==
    {None} \cup
    (IF m \in LayoutMethod
        THEN {[GetDefaultParams(m) EXCEPT ![key] = v] :
                 key \in DOMAIN GetDefaultParams(m), v \in OverrideValues}
        ELSE {})

\* a call of LayoutManager.generate_layout(method, params, **kwargs) or of
\* LayoutSystem.generate_layout(algorithm, **params) is about to run; the
\* keywords of the second are held in kwargs as well
InitMgr ==
    /\ pc \in {"manager_call", "system_call"}
    /\ method \in MethodNames
    /\ kwargs \in KwargsChoices
    /\ params \in (IF pc = "manager_call" THEN ParamsChoices(method) ELSE {None})
    /\ layout = NoLayout
    /\ rooms = <<>> /\ grid = <<>>
    /\ IdlePhys /\ IdleAdj /\ IdleGraph /\ IdleWfc /\ IdleRng /\ IdleAgent /\ IdleCalls

\* the argument is not a member of LayoutMethod: method.value raises before
\* any branch is taken
GenerateLayoutNoMember ==
    /\ pc = "manager_call"
    /\ method \notin LayoutMethod
    /\ layout' = Raised("AttributeError")
    /\ pc' = "manager_raised"
    /\ UNCHANGED <<params, method, kwargs, OutsideMgr>>

\* the parameters generate_layout hands to the generator
EffectiveParams(created) ==
    IF params = None THEN created
    ELSE IF DOMAIN kwargs # {} THEN MergeParams(params, kwargs)
    ELSE params

\* the branch method.value.startswith('graph_')
GenerateLayoutGraph ==
    /\ pc = "manager_call"
    /\ method \in {"graph_linear", "graph_hub", "graph_branching", "graph_loop"}
    /\ params' = EffectiveParams(CreateGraphParams(MethodType(method), kwargs))
    /\ layout' = FormatOutput(method)
    /\ pc' = "manager_returned"
    /\ UNCHANGED <<method, kwargs, OutsideMgr>>

\* the branch method.value.startswith('physics_')
GenerateLayoutPhysics ==
    /\ pc = "manager_call"
    /\ method = "physics_tinykep"
    /\ params' = EffectiveParams(CreatePhysicsParams(kwargs))
    /\ layout' = FormatOutput(method)
    /\ pc' = "manager_returned"
    /\ UNCHANGED <<method, kwargs, OutsideMgr>>

\* the branch method == LayoutMethod.ENHANCED_PHYSICS
GenerateLayoutEnhancedPhysics ==
    /\ pc = "manager_call"
    /\ method = "enhanced_physics"
    /\ params' = EffectiveParams(CreateEnhancedPhysicsParams(kwargs))
    /\ layout' = FormatOutput(method)
    /\ pc' = "manager_returned"
    /\ UNCHANGED <<method, kwargs, OutsideMgr>>

\* the branch method == LayoutMethod.ADJACENT_ROOMS
GenerateLayoutAdjacentRooms ==
    /\ pc = "manager_call"
    /\ method = "adjacent_rooms"
    /\ params' = EffectiveParams(CreateAdjacentRoomParams(kwargs))
    /\ layout' = FormatOutput(method)
    /\ pc' = "manager_returned"
    /\ UNCHANGED <<method, kwargs, OutsideMgr>>

\* LayoutSystem.generate_layout: an algorithm other than "polyomino" raises
\* ValueError; LayoutParams(**params) raises TypeError for a keyword that is
\* no field; otherwise the generator runs with the keywords as fields
SystemGenerateLayout ==
    /\ pc = "system_call"
    /\ IF method # "polyomino"
          THEN /\ layout' = Raised("ValueError")
               /\ pc' = "system_raised"
               /\ UNCHANGED params
          ELSE IF \E key \in DOMAIN kwargs :
                     ~HasAttr(DefaultParams("LayoutParams"), key)
          THEN /\ layout' = Raised("TypeError")
               /\ pc' = "system_raised"
               /\ UNCHANGED params
          ELSE /\ params' = [key \in DOMAIN DefaultParams("LayoutParams") |->
                               IF key \in DOMAIN kwargs THEN kwargs[key]
                               ELSE DefaultParams("LayoutParams")[key]]
               /\ layout' = FormatOutput(method)
               /\ pc' = "system_returned"
    /\ UNCHANGED <<method, kwargs, OutsideMgr>>

NextMgr ==
    \/ GenerateLayoutNoMember
    \/ GenerateLayoutGraph
    \/ GenerateLayoutPhysics
    \/ GenerateLayoutEnhancedPhysics
    \/ GenerateLayoutAdjacentRooms
    \/ SystemGenerateLayout

SpecMgr == InitMgr /\ [][NextMgr]_vars

-----------------------------------------------------------------------------
(* The random draws of _generate_rooms_in_circle.  The module random and    *)
(* numpy.random each own one global generator; a generator is modelled as a *)
(* small congruential generator: a state, a step, and the value read off    *)
(* the state.  random.seed sets the state of the first one only.            *)

\* the states of a generator, and the seeds a caller passes to random.seed
RngStates == 0 .. 15
Seeds == 0 .. 3

\* the state of a generator after one draw
NextRandom(state) == (5 * state + 3) % 16

\* the value a draw returns, read off the state the draw leaves
RandomValue(state) == state \div 4

\* rooms generated by one call: params.num_rooms
SeededParams == [num_rooms |-> 2]

\* _get_random_point_in_circle makes three draws of random.random(), t, and
\* the two terms of u; the point is a function of them
RandomPointInCircle(t, u1, u2) == <<1 + (t % 2), 1 + ((u1 + u2) % 2)>>

\* max(room_size_min, int(np.random.normal(mean, std))), capped at
\* room_size_max: a side in RoomSides, a function of the draw
RandomSide(draw) == 1 + (draw % 2)

\* a process that has used both generators before; no generate call yet
InitSeeded ==
    /\ pc = "seed"
    /\ py_random \in RngStates
    /\ np_random \in RngStates
    /\ runs = <<>>
    /\ requests = <<>>
    /\ rooms = <<>>
    /\ params = SeededParams
    /\ grid = ZeroGrid(GridW, GridH)
    /\ IdlePhys /\ IdleAdj /\ IdleGraph /\ IdleWfc /\ IdleMgr /\ IdleAgent /\ IdleCalls

\* the caller seeds the run, random.seed(seed), with the seed of the earlier
\* run if there was one, and generate_tinykep_layout starts with _reset
SeedAndReset ==
    /\ pc = "seed"
    /\ Len(runs) < 2
    /\ \E seed \in Seeds :
          /\ runs # <<>> => seed = runs[1].seed
          /\ py_random' = seed
          /\ runs' = Append(runs, [seed |-> seed, returned |-> FALSE, rooms |-> <<>>])
    /\ rooms' = <<>>
    /\ pc' = "generate"
    /\ UNCHANGED <<np_random, params, OutsideRuns>>

\* one pass of the loop of _generate_rooms_in_circle
GenerateRoomInCircle ==
    /\ pc = "generate"
    /\ Len(rooms) < params.num_rooms
    /\ LET s1 == NextRandom(py_random)
           s2 == NextRandom(s1)
           s3 == NextRandom(s2)
           n1 == NextRandom(np_random)
           n2 == NextRandom(n1)
           point == RandomPointInCircle(RandomValue(s1), RandomValue(s2), RandomValue(s3))
       IN  /\ rooms' = Append(rooms, NewRoom(Len(rooms), point[1], point[2],
                                             RandomSide(RandomValue(n1)),
                                             RandomSide(RandomValue(n2))))
           /\ py_random' = s3
           /\ np_random' = n2
    /\ UNCHANGED <<pc, runs, params, OutsideRuns>>

\* the loop is over and the call returns; the room list is recorded
ReturnRooms ==
    /\ pc = "generate"
    /\ Len(rooms) >= params.num_rooms
    /\ runs' = [runs EXCEPT ![Len(runs)] = [@ EXCEPT !.returned = TRUE, !.rooms = rooms]]
    /\ pc' = "seed"
    /\ UNCHANGED <<rooms, py_random, np_random, params, OutsideRuns>>

NextSeeded ==
    \/ SeedAndReset
    \/ GenerateRoomInCircle
    \/ ReturnRooms

SpecSeeded == InitSeeded /\ [][NextSeeded]_vars

-----------------------------------------------------------------------------
(* Two calls of generate_tinykep_layout that run at once on the             *)
(* PhysicsLayoutGenerator of one LayoutManager, each in a thread of its     *)
(* own.  self.rooms and the two generators of random numbers are shared;    *)
(* the loop counter of _generate_rooms_in_circle is local to the call.  A   *)
(* thread can be suspended between any two passes of the loop.              *)

Requests == {1, 2}

InitRequests ==
    /\ pc = "threads"
    /\ py_random \in Seeds
    /\ np_random \in Seeds
    /\ requests = [t \in Requests |-> [pc |-> "call", own |-> <<>>, result |-> <<>>]]
    /\ rooms = <<>>
    /\ runs = <<>>
    /\ params = SeededParams
    /\ grid = ZeroGrid(GridW, GridH)
    /\ IdlePhys /\ IdleAdj /\ IdleGraph /\ IdleWfc /\ IdleMgr /\ IdleAgent /\ IdleCalls

\* request t enters generate_tinykep_layout: self._reset()
RequestReset(t) ==
    /\ requests[t].pc = "call"
    /\ rooms' = <<>>
    /\ requests' = [requests EXCEPT ![t].pc = "generate"]
    /\ UNCHANGED <<pc, py_random, np_random, params, OutsideRequests>>

\* one pass of the loop of _generate_rooms_in_circle in request t; own keeps
\* the rooms this request has made
RequestGenerateRoom(t) ==
    /\ requests[t].pc = "generate"
    /\ Len(requests[t].own) < params.num_rooms
    /\ LET s1 == NextRandom(py_random)
           s2 == NextRandom(s1)
           s3 == NextRandom(s2)
           n1 == NextRandom(np_random)
           n2 == NextRandom(n1)
           point == RandomPointInCircle(RandomValue(s1), RandomValue(s2), RandomValue(s3))
           room == NewRoom(Len(requests[t].own), point[1], point[2],
                           RandomSide(RandomValue(n1)), RandomSide(RandomValue(n2)))
       IN  /\ rooms' = Append(rooms, room)
           /\ requests' = [requests EXCEPT ![t].own = Append(@, room)]
           /\ py_random' = s3
           /\ np_random' = n2
    /\ UNCHANGED <<pc, params, OutsideRequests>>

\* the loop of request t is over: the later steps of the call work on
\* self.rooms as it is now
RequestRoomsDone(t) ==
    /\ requests[t].pc = "generate"
    /\ Len(requests[t].own) >= params.num_rooms
    /\ requests' = [requests EXCEPT ![t].pc = "rooms_done", ![t].result = rooms]
    /\ UNCHANGED <<pc, rooms, py_random, np_random, params, OutsideRequests>>

NextRequests ==
    \E t \in Requests :
        \/ RequestReset(t)
        \/ RequestGenerateRoom(t)
        \/ RequestRoomsDone(t)

SpecRequests == InitRequests /\ [][NextRequests]_vars

-----------------------------------------------------------------------------
(* parse_design_room (agent/chat/parsing.py) on the room map of             *)
(* DungeonData.get_room_arr.  A Python value is a pair of its type and its   *)
(* content, so that a str and an int are told apart: '0' is PyStr("0") and   *)
(* 0 is PyInt(0).                                                            *)

PyStr(s) == <<"str", s>>
PyInt(n) == <<"int", n>>

\* a == b for two Python values: a str never equals an int
PyEq(a, b) == a[1] = b[1] /\ a[2] = b[2]

\* str(e)
ToStr(e) ==
    IF e[1] = "str" THEN e
    ELSE PyStr(CASE e[2] = 0 -> "0" [] e[2] = 1 -> "1" [] e[2] = 2 -> "2")

\* int(value) for '0', '1', '2'
ToInt(value) ==
    IF value[1] = "int" THEN value
    ELSE PyInt(CASE value[2] = "0" -> 0 [] value[2] = "1" -> 1 [] value[2] = "2" -> 2)

\* AGENT_KEY, the mapping get_room_arr applies to a tile code; the result is
\* turned into a str
AgentKey(code) ==
    CASE code = 0 -> PyStr("0")
      [] code = 2 -> PyStr("2")
      [] code = 4 -> PyStr("D")
      [] OTHER -> PyStr("1")

\* the room grids (after _extract_room_island) the parser is explored with: a
\* floor cell in a ring of walls, the same with a door, the same with a
\* corner that belongs to no room
RoomGrids ==
    { <<<<2, 2, 2>>, <<2, 1, 2>>, <<2, 2, 2>>>>,
      <<<<2, 4, 2>>, <<2, 6, 2>>, <<2, 2, 2>>>>,
      <<<<0, 2, 2>>, <<2, 1, 2>>, <<2, 2, 2>>>> }

\* DungeonData.get_room_arr: np.vectorize(lambda x: str(AGENT_KEY[x]))
GetRoomArr(room_grid) ==
    [r \in DOMAIN room_grid |-> [c \in DOMAIN room_grid[r] |-> AgentKey(room_grid[r][c])]]

\* _map_assets: one asset with key 'c', and the key 'D' that is always added
AssetListKey == [c |-> "chair_1", D |-> "door_wood_arched_1"]

\* the elements a response is made of: numbers, the door, the key of an
\* asset, and a key that no asset has
ResponseValues == {PyInt(0), PyInt(1), PyInt(2), PyStr("D"), PyStr("c"), PyStr("q")}

\* the element of a list literal that shows a cell of the room map
Echo(cell) == IF cell[2] \in {"0", "1", "2"} THEN ToInt(cell) ELSE cell

\* the responses explored for a room map: the map itself with at most one
\* element replaced, with the last row left out, or with the last element of
\* the first row left out; and a response without answer tags
ModelResponses(rm) ==
    LET echo == [r \in DOMAIN rm |-> [c \in DOMAIN rm[r] |-> Echo(rm[r][c])]]
        edited == { [echo EXCEPT ![r][c] = v] :
                      r \in DOMAIN rm, c \in DOMAIN rm[1], v \in ResponseValues }
        cut == { SubSeq(echo, 1, Len(echo) - 1),
                 [echo EXCEPT ![1] = SubSeq(echo[1], 1, Len(echo[1]) - 1)] }
    IN  { [tagged |-> TRUE, answer |-> a] : a \in edited \cup cut }
        \cup { [tagged |-> FALSE, answer |-> <<>>] }

\* _coerce_to_2d_list: every element of the list becomes a str
CoerceTo2dList(answer) ==
    [r \in DOMAIN answer |-> [c \in DOMAIN answer[r] |-> ToStr(answer[r][c])]]

\* the overlay validity check: room_map[r, c] == 0 and parsed_arr[r][c] != 0
OverlayMismatch(rm, parsed_arr) ==
    \E r \in DOMAIN parsed_arr : \E c \in DOMAIN parsed_arr[r] :
        PyEq(rm[r][c], PyInt(0)) /\ ~PyEq(parsed_arr[r][c], PyInt(0))

\* _map_values may raise: the value is no number and no key of the assets
Unmappable(value) ==
    /\ ~\E n \in {PyStr("2"), PyStr("1"), PyStr("0"), PyInt(2), PyInt(1), PyInt(0)} : PyEq(value, n)
    /\ value[2] \notin DOMAIN AssetListKey

\* _map_values
MapValues(value) ==
    IF \E n \in {PyStr("2"), PyStr("1"), PyStr("0"), PyInt(2), PyInt(1), PyInt(0)} : PyEq(value, n)
    THEN ToInt(value)
    ELSE PyStr(AssetListKey[value[2]])

\* parse_design_room
ParseDesignRoom(rm, response) ==
    IF ~response.tagged THEN [kind |-> "raised", error |-> "ParsingError"]
    ELSE LET parsed_arr == CoerceTo2dList(response.answer)
         IN  IF \/ Len(parsed_arr) # Len(rm)
                \/ \E r \in DOMAIN parsed_arr : Len(parsed_arr[r]) # Len(rm[1])
             THEN [kind |-> "raised", error |-> "ValueError"]
             ELSE IF OverlayMismatch(rm, parsed_arr)
             THEN [kind |-> "raised", error |-> "ValueError"]
             ELSE IF \E r \in DOMAIN parsed_arr : \E c \in DOMAIN parsed_arr[r] :
                        Unmappable(parsed_arr[r][c])
             THEN [kind |-> "raised", error |-> "ValueError"]
             ELSE [kind |-> "returned",
                   grid |-> [r \in DOMAIN parsed_arr |->
                               [c \in DOMAIN parsed_arr[r] |-> MapValues(parsed_arr[r][c])]]]

\* llm_design_room has the room map of a room and the response of the model
InitAgent ==
    /\ pc = "parse"
    /\ \E room_grid \in RoomGrids :
          /\ room_map = GetRoomArr(room_grid)
          /\ model_response \in ModelResponses(GetRoomArr(room_grid))
    /\ mapped_room = <<>>
    /\ rooms = <<>> /\ params = <<>> /\ grid = <<>>
    /\ IdlePhys /\ IdleAdj /\ IdleGraph /\ IdleWfc /\ IdleMgr /\ IdleRng /\ IdleCalls

\* the parser_func of chat_parsed: parse_design_room(asset_list_key, room_map, ...)
ParseResponse ==
    /\ pc = "parse"
    /\ mapped_room' = ParseDesignRoom(room_map, model_response)
    /\ pc' = "parsed"
    /\ UNCHANGED <<room_map, model_response, OutsideAgent>>

NextAgent == ParseResponse

SpecAgent == InitAgent /\ [][NextAgent]_vars

-----------------------------------------------------------------------------
(* PolyominoLayoutGenerator.generate (layout_generator.py) with the blocks  *)
(* of ShapeLibrary (shapes.py) and the graphs of GraphBuilder               *)
(* (graph_utils.py).  A Polyomino is the set of its cells; a graph is the    *)
(* record of its nodes and of its edges, an edge being the set of its ends.  *)

\* width and height handed to PolyominoLayoutGenerator's constructor
PolyWidth == 11
PolyHeight == 11

\* Polyomino.__post_init__: the cells moved so that the least x and y are 0
Polyomino(cells) ==
    IF cells = {} THEN {}
    ELSE LET min_x == CHOOSE v \in { c[1] : c \in cells } : \A c \in cells : v <= c[1]
             min_y == CHOOSE v \in { c[2] : c \in cells } : \A c \in cells : v <= c[2]
         IN  { <<c[1] - min_x, c[2] - min_y>> : c \in cells }

\* Polyomino.width and Polyomino.height
PolyominoWidth(cells) ==
    IF cells = {} THEN 0
    ELSE (CHOOSE v \in { c[1] : c \in cells } : \A c \in cells : v >= c[1]) + 1

PolyominoHeight(cells) ==
    IF cells = {} THEN 0
    ELSE (CHOOSE v \in { c[2] : c \in cells } : \A c \in cells : v >= c[2]) + 1

\* Polyomino.rotate
PolyominoRotate(cells) == Polyomino({ <<-c[2], c[1]>> : c \in cells })

\* Polyomino.scale
PolyominoScale(cells, factor) ==
    { <<c[1] * factor + sx, c[2] * factor + sy>> :
        c \in cells, sx \in 0 .. (factor - 1), sy \in 0 .. (factor - 1) }

BuildingBlock(id, cells, room_type) ==
    [id |-> id, polyomino |-> Polyomino(cells), room_type |-> room_type]

\* ShapeLibrary.dungeon_blocks
DungeonBlocks ==
    { BuildingBlock("entrance", {<<0, 0>>}, "entrance"),
      BuildingBlock("chamber", {<<0, 0>>, <<1, 0>>}, "chamber"),
      BuildingBlock("corridor", {<<0, 0>>, <<1, 0>>, <<2, 0>>}, "corridor"),
      BuildingBlock("l_room", {<<0, 0>>, <<0, 1>>, <<1, 0>>}, "chamber"),
      BuildingBlock("square", {<<0, 0>>, <<0, 1>>, <<1, 0>>, <<1, 1>>}, "chamber"),
      BuildingBlock("t_room", {<<0, 1>>, <<1, 0>>, <<1, 1>>, <<1, 2>>}, "chamber"),
      BuildingBlock("boss", {<<1, 0>>, <<0, 1>>, <<1, 1>>, <<2, 1>>, <<1, 2>>}, "boss"),
      BuildingBlock("treasure", {<<0, 1>>, <<1, 0>>, <<1, 1>>, <<2, 0>>}, "treasure") }

\* BuildingBlock.get_variants, of which ShapeLibrary.select_variant draws one
GetVariants(block) ==
    LET r1 == PolyominoRotate(block.polyomino)
        r2 == PolyominoRotate(r1)
        r3 == PolyominoRotate(r2)
    IN  { block.polyomino, r1, r2, r3 }

\* _get_block_for_type: the blocks ShapeLibrary.select_block can return (every
\* weight is positive)
GetBlockForType(room_type) ==
    LET type_blocks == { b \in DungeonBlocks : b.room_type = room_type }
        chambers == { b \in DungeonBlocks : b.room_type = "chamber" }
    IN  IF type_blocks # {} THEN type_blocks
        ELSE IF chambers # {} THEN chambers ELSE DungeonBlocks

\* LayoutParams with the fields given to generate as keywords
LayoutParams(num_rooms, graph_type, max_attempts) ==
    [rooms |-> num_rooms, graph_type |-> graph_type, room_scale |-> 1, margin |-> 1,
     max_attempts |-> max_attempts]

\* nx.path_graph
PathGraph(n) ==
    [nodes |-> 0 .. (n - 1), edges |-> { {i, i + 1} : i \in 0 .. (n - 2) }]

\* GraphBuilder._create_tree: one graph per draw of the parents
CreateTree(n) ==
    { [nodes |-> 0 .. (n - 1), edges |-> { {i, parent[i]} : i \in 1 .. (n - 1) }] :
        parent \in { f \in [1 .. (n - 1) -> 0 .. (n - 1)] : \A i \in 1 .. (n - 1) : f[i] < i } }

\* GraphBuilder._create_mesh for n >= 1: the rows x cols lattice, its nodes
\* numbered row by row
CreateMesh(n) ==
    LET rows == ISqrtIn(n, 0, n)
        cols == (n + rows - 1) \div rows
        node(i, j) == i * cols + j
    IN  [nodes |-> 0 .. (rows * cols - 1),
         edges |-> { {node(i, j), node(i + 1, j)} : i \in 0 .. (rows - 2), j \in 0 .. (cols - 1) }
                   \cup { {node(i, j), node(i, j + 1)} : i \in 0 .. (rows - 1), j \in 0 .. (cols - 2) }]

\* GraphBuilder.create_graph raises: ValueError for an unknown type,
\* ZeroDivisionError in _create_mesh for no rooms
CreateGraphRaises(p) ==
    \/ p.graph_type \notin {"linear", "tree", "mesh"}
    \/ p.graph_type = "mesh" /\ p.rooms = 0

\* GraphBuilder.create_graph: the graphs it can return
CreateGraph(p) ==
    IF p.graph_type = "linear" THEN { PathGraph(p.rooms) }
    ELSE IF p.graph_type = "tree" THEN CreateTree(p.rooms)
    ELSE { CreateMesh(p.rooms) }

\* graph.neighbors
Neighbors(g, n) == { m \in g.nodes : {n, m} \in g.edges /\ m # n }

\* graph.edges(): each edge once, as (u, v) with u < v, in the order of u, then v
RECURSIVE EdgeList(_)
EdgeList(E) ==
    IF E = {} THEN <<>>
    ELSE LET lo(e) == CHOOSE a \in e : \A b \in e : a <= b
             hi(e) == CHOOSE a \in e : \A b \in e : a >= b
             first == CHOOSE e \in E : \A f \in E :
                         lo(e) < lo(f) \/ (lo(e) = lo(f) /\ hi(e) <= hi(f))
         IN  <<(<<lo(first), hi(first)>>)>> \o EdgeList(E \ {first})

\* _assign_room_types: the types room_types[room_id] can hold
AssignRoomTypes(rid, p) ==
    LET boss_room == IF p.graph_type \in {"linear", "tree"} THEN p.rooms - 1
                     ELSE Min(3, p.rooms - 1)
    IN  IF rid = 0 THEN {"entrance"}
        ELSE IF rid = boss_room THEN {"boss"}
        ELSE {"chamber", "treasure", "corridor"}

\* an entry of the list placed
PlacedRoom(id, block, shape, x, y) ==
    [id |-> id, block |-> [id |-> block.id, room_type |-> block.room_type],
     shape |-> shape, x |-> x, y |-> y]

\* _find_random_position: the positions it can return
FindRandomPosition(shape, p) ==
    LET w == PolyominoWidth(shape) * p.room_scale
        h == PolyominoHeight(shape) * p.room_scale
        max_x == PolyWidth - w - p.margin
        max_y == PolyHeight - h - p.margin
    IN  IF max_x < p.margin \/ max_y < p.margin THEN { <<p.margin, p.margin>> }
        ELSE (p.margin .. max_x) \X (p.margin .. max_y)

\* _find_adjacent_position of the polyomino path: the positions it can return
FindAdjacentPositionPoly(parent, shape, p) ==
    LET parent_w == PolyominoWidth(parent.shape) * p.room_scale
        parent_h == PolyominoHeight(parent.shape) * p.room_scale
        new_w == PolyominoWidth(shape) * p.room_scale
        new_h == PolyominoHeight(shape) * p.room_scale
        gap == 1
        positions == { <<parent.x + parent_w + gap, parent.y>>,
                       <<parent.x - new_w - gap, parent.y>>,
                       <<parent.x, parent.y + parent_h + gap>>,
                       <<parent.x, parent.y - new_h - gap>> }
        valid_positions ==
            { c \in positions :
                /\ p.margin <= c[1] /\ c[1] <= PolyWidth - new_w - p.margin
                /\ p.margin <= c[2] /\ c[2] <= PolyHeight - new_h - p.margin }
    IN  IF valid_positions # {} THEN valid_positions ELSE FindRandomPosition(shape, p)

\* _is_valid_position
IsValidPosition(x, y, shape, placed, p) ==
    LET w == PolyominoWidth(shape) * p.room_scale
        h == PolyominoHeight(shape) * p.room_scale
    IN  /\ ~(x < p.margin \/ y < p.margin
             \/ x + w > PolyWidth - p.margin \/ y + h > PolyHeight - p.margin)
        /\ \A k \in DOMAIN placed :
              LET room_w == PolyominoWidth(placed[k].shape) * p.room_scale
                  room_h == PolyominoHeight(placed[k].shape) * p.room_scale
              IN  \/ x + w <= placed[k].x - 1
                  \/ x >= placed[k].x + room_w + 1
                  \/ y + h <= placed[k].y - 1
                  \/ y >= placed[k].y + room_h + 1

\* _try_place_room: the positions one attempt can test
TryPlaceRoomPositions(rid, shape, placed, p, g) ==
    LET neighbors == Neighbors(g, rid)
        parents == { k \in DOMAIN placed : placed[k].id \in neighbors }
    IN  IF parents # {}
        THEN FindAdjacentPositionPoly(
                 placed[CHOOSE k \in parents : \A j \in parents : k <= j], shape, p)
        ELSE FindRandomPosition(shape, p)

\* the nodes the queue of _validate_connectivity visits from the nodes in
\* visited; adjacency is the set of the edges kept
RECURSIVE BfsVisited(_, _)
BfsVisited(adjacency, visited) ==
    LET next == visited \cup UNION { e \in adjacency : e \cap visited # {} }
    IN  IF next = visited THEN visited ELSE BfsVisited(adjacency, next)

\* a check of the placed rooms that only asks for a room
SomeRoomPlaced(g, placed) == placed # <<>>

\* _validate_connectivity
ValidateConnectivity(g, placed) ==
    IF placed = <<>> THEN FALSE
    ELSE LET placed_ids == { placed[k].id : k \in DOMAIN placed }
             adjacency == { e \in g.edges : e \subseteq placed_ids }
         IN  Cardinality(BfsVisited(adjacency, {0})) = Cardinality(placed_ids)

\* _get_cell_value
GetCellValue(room_type) ==
    CASE room_type = "entrance" -> 6
      [] room_type = "boss" -> 7
      [] room_type = "corridor" -> 3
      [] room_type = "treasure" -> 5
      [] OTHER -> 1

\* room_cells[room['id']] of _create_grid
RoomCells(room, p) ==
    { <<room.x + c[1], room.y + c[2]>> : c \in PolyominoScale(room.shape, p.room_scale) }

\* _place_door: the grids it can leave.  The first wall cell met in the
\* iteration over the set room1_cells that has a cell of room 2 behind it
\* becomes the door; the order of that iteration is not fixed by the code.
PlaceDoor(gr, edge, room_cells) ==
    LET room1_cells == room_cells[edge[1]]
        room2_cells == room_cells[edge[2]]
        candidates ==
            { wall \in DOMAIN gr :
                /\ gr[wall] = 2
                /\ \E c \in room1_cells, d \in {<<1, 0>>, <<-1, 0>>, <<0, 1>>, <<0, -1>>} :
                      /\ wall = <<c[1] + d[1], c[2] + d[2]>>
                      /\ <<wall[1] + d[1], wall[2] + d[2]>> \in room2_cells }
    IN  IF room1_cells = {} \/ room2_cells = {} \/ candidates = {} THEN { gr }
        ELSE { [c \in DOMAIN gr |-> IF c = wall THEN 4 ELSE gr[c]] : wall \in candidates }

\* the loop "for edge in graph.edges(): self._place_door(...)" from edge n on,
\* started on any of grids: the grids it can leave
RECURSIVE PlaceDoorsPoly(_, _, _, _)
PlaceDoorsPoly(grids, edges, n, room_cells) ==
    IF n > Len(edges) THEN grids
    ELSE PlaceDoorsPoly(UNION { PlaceDoor(gr, edges[n], room_cells) : gr \in grids },
                        edges, n + 1, room_cells)

\* _create_grid: the grids it can return
CreateGrid(placed, p, g) ==
    LET room_cells == [n \in g.nodes |->
                          UNION { RoomCells(placed[k], p) :
                                    k \in { j \in DOMAIN placed : placed[j].id = n } }]
        all_floor_cells == UNION { RoomCells(placed[k], p) : k \in DOMAIN placed }
        \* a later room of the list overwrites an earlier one
        owner(c) == CHOOSE k \in DOMAIN placed :
                        /\ c \in RoomCells(placed[k], p)
                        /\ \A j \in DOMAIN placed : c \in RoomCells(placed[j], p) => j <= k
        floors == [c \in (0 .. (PolyWidth - 1)) \X (0 .. (PolyHeight - 1)) |->
                      IF c \in all_floor_cells
                      THEN GetCellValue(placed[owner(c)].block.room_type) ELSE 0]
        wall_cells == { c \in DOMAIN floors :
                          /\ c \notin all_floor_cells
                          /\ \E f \in all_floor_cells :
                                Abs(f[1] - c[1]) <= 1 /\ Abs(f[2] - c[2]) <= 1 }
        walled == [c \in DOMAIN floors |-> IF c \in wall_cells THEN 2 ELSE floors[c]]
    IN  PlaceDoorsPoly({ walled }, EdgeList(g.edges), 1, room_cells)

\* _convert_rooms
ConvertRooms(placed, p) ==
    [k \in DOMAIN placed |->
        LET w == PolyominoWidth(placed[k].shape) * p.room_scale
            h == PolyominoHeight(placed[k].shape) * p.room_scale
        IN  [id |-> placed[k].id,
             center |-> <<placed[k].x + w \div 2, placed[k].y + h \div 2>>,
             bounds |-> [min_x |-> placed[k].x, max_x |-> placed[k].x + w,
                         min_y |-> placed[k].y, max_y |-> placed[k].y + h],
             area |-> Cardinality(placed[k].shape) * p.room_scale * p.room_scale,
             room_type |-> placed[k].block.room_type]]

\* the LayoutResult of the except branch of generate
FailedResult ==
    [kind |-> "LayoutResult", grid |-> ZeroGrid(PolyWidth, PolyHeight), rooms |-> <<>>,
     connectivity_validated |-> FALSE, success |-> FALSE]

\* the state at the call of generate(rooms=..., graph_type=..., room_scale=1,
\* margin=1, max_attempts=...) on PolyominoLayoutGenerator(PolyWidth, PolyHeight)
InitPoly ==
    /\ pc = "generate"
    /\ \E num_rooms \in {0, 1, 4}, graph_type \in {"linear", "tree", "mesh", "ring"},
          max_attempts \in {0, 100} :
          params = LayoutParams(num_rooms, graph_type, max_attempts)
    /\ rooms = <<>> /\ grid = <<>>
    /\ IdlePhys /\ IdleAdj /\ IdleGraph /\ IdleWfc /\ IdleMgr /\ IdleRng /\ IdleAgent /\ IdleCalls

\* GraphBuilder.create_graph; what it raises is caught by generate
PolyCreateGraph ==
    /\ pc = "generate"
    /\ IF CreateGraphRaises(params)
          THEN /\ layout' = FailedResult
               /\ pc' = "returned"
               /\ UNCHANGED graph
          ELSE /\ graph' \in CreateGraph(params)
               /\ pc' = "place_rooms"
               /\ UNCHANGED layout
    /\ UNCHANGED <<rooms, params, room_id, OutsidePoly>>

\* _place_rooms up to its loop: the first room is appended untested;
\* room_types[0] of an empty list raises IndexError
PlaceFirstRoom ==
    /\ pc = "place_rooms"
    /\ room_id = 0
    /\ IF params.rooms <= 0
          THEN /\ layout' = FailedResult
               /\ pc' = "returned"
               /\ UNCHANGED <<rooms, room_id>>
          ELSE /\ \E first_block \in GetBlockForType("entrance") :
                     \E first_shape \in GetVariants(first_block) :
                        rooms' = <<PlacedRoom(0, first_block, first_shape,
                                     PolyWidth \div 2
                                         - (PolyominoWidth(first_shape) * params.room_scale) \div 2,
                                     PolyHeight \div 2
                                         - (PolyominoHeight(first_shape) * params.room_scale) \div 2)>>
               /\ room_id' = 1
               /\ UNCHANGED <<pc, layout>>
    /\ UNCHANGED <<params, graph, OutsidePoly>>

\* the loop of _place_rooms: an attempt of _try_place_room for room_id tests a
\* valid position and appends the room
TryPlaceRoom ==
    /\ pc = "place_rooms"
    /\ 1 <= room_id /\ room_id < params.rooms
    /\ params.max_attempts > 0
    /\ \E room_type \in AssignRoomTypes(room_id, params) :
          \E block \in GetBlockForType(room_type) :
             \E shape \in GetVariants(block) :
                \E pos \in TryPlaceRoomPositions(room_id, shape, rooms, params, graph) :
                   /\ IsValidPosition(pos[1], pos[2], shape, rooms, params)
                   /\ rooms' = Append(rooms, PlacedRoom(room_id, block, shape, pos[1], pos[2]))
    /\ room_id' = room_id + 1
    /\ UNCHANGED <<pc, params, graph, layout, OutsidePoly>>

\* the loop of _place_rooms: every attempt for room_id tests an invalid
\* position (each attempt draws afresh, so they can all fail as soon as one
\* can), or there is no attempt; the room is left out
RoomNotPlaced ==
    /\ pc = "place_rooms"
    /\ 1 <= room_id /\ room_id < params.rooms
    /\ \/ params.max_attempts <= 0
       \/ \E room_type \in AssignRoomTypes(room_id, params) :
             \E block \in GetBlockForType(room_type) :
                \E shape \in GetVariants(block) :
                   \E pos \in TryPlaceRoomPositions(room_id, shape, rooms, params, graph) :
                      ~IsValidPosition(pos[1], pos[2], shape, rooms, params)
    /\ room_id' = room_id + 1
    /\ UNCHANGED <<pc, rooms, params, graph, layout, OutsidePoly>>

\* generate after _place_rooms: _validate_connectivity, _create_grid,
\* _convert_rooms and the LayoutResult
PolyReturn ==
    /\ pc = "place_rooms"
    /\ 1 <= room_id /\ room_id >= params.rooms
    /\ LET connectivity_valid == ValidateConnectivity(graph, rooms)
       IN  \E gr \in CreateGrid(rooms, params, graph) :
              layout' = [kind |-> "LayoutResult", grid |-> gr,
                         rooms |-> ConvertRooms(rooms, params),
                         connectivity_validated |-> connectivity_valid,
                         success |-> Len(rooms) > 0 /\ connectivity_valid]
    /\ pc' = "returned"
    /\ UNCHANGED <<rooms, params, room_id, graph, OutsidePoly>>

NextPoly ==
    \/ PolyCreateGraph
    \/ PlaceFirstRoom
    \/ TryPlaceRoom
    \/ RoomNotPlaced
    \/ PolyReturn

SpecPoly == InitPoly /\ [][NextPoly]_vars

-----------------------------------------------------------------------------
(* The corridor-drawing steps, one call at a time, on a grid that already   *)
(* holds painted rooms: _draw_horizontal_corridor, _draw_vertical_corridor, *)
(* _draw_direct_corridor (physics_generator.py) and                         *)
(* GraphLayoutGenerator._create_corridor_between_rooms (graph_generator.py) *)

\* number of corridor-drawing calls explored on one grid
MaxCorridorCalls == 2

\* the two rooms whose centers the corridors join
CorridorRoomIds == 0 .. 1

\* PhysicsLayoutParams of the drawing steps
CorridorParams(corridor_width, place_walls) ==
    [PhysicsGridParams(0, 2, 100) EXCEPT !.corridor_width = corridor_width,
                                         !.place_walls = place_walls]

\* the grid of _create_final_grid before _draw_corridors: both rooms painted
\* as main rooms with marker 6
PaintedRooms(rs, p) ==
    PlaceRooms(ZeroGrid(GridW, GridH), rs, Cardinality(DOMAIN rs), "is_main",
               [i \in DOMAIN rs |-> 6], p)

\* the cells _draw_direct_corridor visits; the ends are doubled, and
\* int(start + i * inc) is the floor of (2*start*steps + i*(2*end - 2*start))
\* over 2*steps
DirectCorridorCells(corridor, p) ==
    LET half_width == p.corridor_width \div 2
        sx == corridor.start[1]
        sy == corridor.start[2]
        ex == corridor.end[1]
        ey == corridor.end[2]
        steps == Max(Abs(ex - sx) \div 2, Abs(ey - sy) \div 2)
    IN  IF steps = 0 THEN {}
        ELSE { <<((sx * steps + i * (ex - sx)) \div (2 * steps)) + dx,
                 ((sy * steps + i * (ey - sy)) \div (2 * steps)) + dy>> :
                   i \in 0 .. steps, dx \in (-half_width) .. half_width,
                   dy \in (-half_width) .. half_width }

\* _draw_direct_corridor
DrawDirectCorridor(gr, corridor, p) ==
    LET cells == DirectCorridorCells(corridor, p)
    IN  [c \in DOMAIN gr |-> IF c \in cells /\ gr[c] = 0 THEN 3 ELSE gr[c]]

\* GraphLayoutGenerator._create_corridor_between_rooms: the horizontal leg on
\* row y1, then the vertical leg on column x2
GraphCorridorBetweenRooms(gr, room1, room2) ==
    LET x1 == room1.x + (room1.width \div 2)
        y1 == room1.y + (room1.height \div 2)
        x2 == room2.x + (room2.width \div 2)
        y2 == room2.y + (room2.height \div 2)
        horizontal == { <<x, y1>> : x \in Min(x1, x2) .. Max(x1, x2) }
        vertical == { <<x2, y>> : y \in Min(y1, y2) .. Max(y1, y2) }
    IN  [c \in DOMAIN gr |-> IF c \in horizontal \cup vertical /\ gr[c] = 0 THEN 3 ELSE gr[c]]

InitCorridor ==
    /\ pc = "draw_corridors"
    /\ \E gen \in [CorridorRoomIds ->
                     { NewRoom(0, x, y, s, s) : x \in 0 .. (GridW - 1), y \in 0 .. (GridH - 1),
                                                s \in RoomSides \cup {3} }] :
          rooms = [i \in CorridorRoomIds |-> [gen[i] EXCEPT !.id = i, !.is_main = TRUE]]
    /\ \E w \in {1, 3}, pw \in BOOLEAN : params = CorridorParams(w, pw)
    /\ grid = PaintedRooms(rooms, params)
    /\ iteration = 0
    /\ exitReason = "none"
    /\ IdleAdj /\ IdleGraph /\ IdleWfc /\ IdleMgr /\ IdleRng /\ IdleAgent /\ IdleCalls

\* one call of _draw_horizontal_corridor for a corridor of the L-shaped style
DrawHorizontalCorridor ==
    /\ pc = "draw_corridors"
    /\ iteration < MaxCorridorCalls
    /\ \E a, b \in DOMAIN rooms :
          \E corridor \in CreateCorridorBetweenRooms(rooms[a], rooms[b]) :
             /\ a # b
             /\ corridor.direction = "horizontal"
             /\ grid' = DrawCorridors(grid, {corridor}, params)
    /\ iteration' = iteration + 1
    /\ UNCHANGED <<pc, rooms, params, exitReason, OutsidePhys>>

\* one call of _draw_vertical_corridor for a corridor of the L-shaped style
DrawVerticalCorridor ==
    /\ pc = "draw_corridors"
    /\ iteration < MaxCorridorCalls
    /\ \E a, b \in DOMAIN rooms :
          \E corridor \in CreateCorridorBetweenRooms(rooms[a], rooms[b]) :
             /\ a # b
             /\ corridor.direction = "vertical"
             /\ grid' = DrawCorridors(grid, {corridor}, params)
    /\ iteration' = iteration + 1
    /\ UNCHANGED <<pc, rooms, params, exitReason, OutsidePhys>>

\* one call of _draw_direct_corridor for a corridor of the straight style
DrawDirect ==
    /\ pc = "draw_corridors"
    /\ iteration < MaxCorridorCalls
    /\ \E a, b \in DOMAIN rooms :
          /\ a # b
          /\ grid' = DrawDirectCorridor(grid, [start |-> Center2(rooms[a]),
                                               end |-> Center2(rooms[b]),
                                               direction |-> "direct"], params)
    /\ iteration' = iteration + 1
    /\ UNCHANGED <<pc, rooms, params, exitReason, OutsidePhys>>

\* one call of GraphLayoutGenerator._create_corridor_between_rooms
GraphCreateCorridor ==
    /\ pc = "draw_corridors"
    /\ iteration < MaxCorridorCalls
    /\ \E a, b \in DOMAIN rooms :
          /\ a # b
          /\ grid' = GraphCorridorBetweenRooms(grid, rooms[a], rooms[b])
    /\ iteration' = iteration + 1
    /\ UNCHANGED <<pc, rooms, params, exitReason, OutsidePhys>>

NextCorridor ==
    \/ DrawHorizontalCorridor
    \/ DrawVerticalCorridor
    \/ DrawDirect
    \/ GraphCreateCorridor

SpecCorridor == InitCorridor /\ [][NextCorridor]_vars

-----------------------------------------------------------------------------
(* The door window of _place_doors_between_adjacent_rooms, applied to the   *)
(* shared wall of one adjacent pair of rectangles                           *)

\* the longest shared wall explored
MaxWallLength == 12

\* the bounds of two rooms that touch along a column or along a row
TouchingBounds ==
    { <<[min_x |-> 0, max_x |-> 3, min_y |-> a, max_y |-> b],
        [min_x |-> 3, max_x |-> 6, min_y |-> c, max_y |-> d]>> :
          a \in 0 .. 1, c \in 0 .. 1, b \in 2 .. (MaxWallLength + 1), d \in 2 .. (MaxWallLength + 1) }
    \cup { <<[min_x |-> a, max_x |-> b, min_y |-> 3, max_y |-> 6],
             [min_x |-> 1, max_x |-> d, min_y |-> 0, max_y |-> 3]>> :
               a \in 0 .. 1, b \in 2 .. (MaxWallLength + 1), d \in 2 .. (MaxWallLength + 1) }

InitDoor ==
    /\ pc = "place_doors"
    /\ \E pair \in TouchingBounds : pair_wall = GetSharedWall(pair[1], pair[2])
    /\ \E lo \in 0 .. 2, hi \in {0, 1, 3} :
          params = [AdjacentRoomLayoutParams(2, 1, "grid_fill", 100)
                      EXCEPT !.min_door_length = lo, !.max_door_length = hi]
    /\ door_positions = <<>>
    /\ rooms = <<>> /\ grid = <<>>
    /\ IdlePhys /\ IdleAdj /\ IdleGraph /\ IdleWfc /\ IdleMgr /\ IdleRng /\ IdleAgent
    /\ IdleAsync /\ IdleChat

\* the body of "if shared_wall and len(shared_wall) > 0": the slice
\* shared_wall[start_idx:end_idx]
SliceDoorPositions ==
    /\ pc = "place_doors"
    /\ pair_wall # <<>>
    /\ LET window == DoorWindow(pair_wall, params)
       IN  door_positions' = SubSeq(pair_wall, window.start_idx + 1, window.end_idx)
    /\ pc' = "doors_placed"
    /\ UNCHANGED <<pair_wall, params, OutsideDoor>>

NextDoor == SliceDoorPositions

SpecDoor == InitDoor /\ [][NextDoor]_vars

-----------------------------------------------------------------------------
(* _select_main_rooms of the three generators, applied to a room list       *)

\* the longest room list explored
MaxSelectRooms == 3

\* the selection fields of the three parameter classes; ratios in percent
SelectParams(generator, min_main_rooms) ==
    [generator |-> generator,
     room_size_mean |-> 2,
     main_room_threshold |-> 125,
     min_main_rooms |-> min_main_rooms,
     main_room_selection_ratio |-> 30]

\* a rectangular room as each generator holds it: x, y, width, height of
\* PhysicsRoom and the geometry of EnhancedPhysicsRoom and AdjacentRoom
SelectRoom(id, w, h) ==
    [id |-> id, x |-> 1, y |-> 1, width |-> w, height |-> h,
     is_main |-> FALSE, is_hallway |-> FALSE,
     geometry |-> FromRectangle(1, 1, w, h), doors |-> {}]

\* EnhancedPhysicsLayoutGenerator._select_main_rooms: the is_main flag of
\* every room
SelectMainRoomsEnhanced(rs, p) ==
    LET area(i) == GeomArea(rs[i].geometry)
        meets(i) == area(i) * 10000 >= (p.room_size_mean * p.main_room_threshold)
                                       * (p.room_size_mean * p.main_room_threshold)
        n == Cardinality(DOMAIN rs)
        rank(i) == Cardinality({ j \in DOMAIN rs :
                                   area(j) > area(i) \/ (area(j) = area(i) /\ j < i) })
        num_to_select == Max(p.min_main_rooms, (n * p.main_room_selection_ratio) \div 100)
    IN  IF Cardinality({ i \in DOMAIN rs : meets(i) }) < p.min_main_rooms /\ n > 0
        THEN [i \in DOMAIN rs |-> [rs[i] EXCEPT !.is_main = rank(i) < Min(num_to_select, n)]]
        ELSE [i \in DOMAIN rs |-> [rs[i] EXCEPT !.is_main = meets(i)]]

InitSelect ==
    /\ pc = "select_main"
    /\ \E n \in 0 .. MaxSelectRooms :
          /\ \E w \in [1 .. n -> 1 .. 3], h \in [1 .. n -> {1, 3}] :
                rooms = [k \in 1 .. n |-> SelectRoom(k - 1, w[k], h[k])]
          /\ \E edges \in SUBSET { {a, b} : a, b \in 0 .. (n - 1) } :
                /\ \A e \in edges : Cardinality(e) = 2
                /\ adjacency_graph = [nodes |-> 0 .. (n - 1), edges |-> edges]
    /\ \E generator \in {"physics", "enhanced", "adjacent"}, m \in 1 .. 3 :
          /\ params = SelectParams(generator, m)
          /\ generator # "adjacent" => adjacency_graph.edges = {}
    /\ grid = <<>>
    /\ iteration = 0 /\ exitReason = "none"
    /\ room_id = 0 /\ cluster = NoCluster /\ placement_grid = {}
    /\ IdleGraph /\ IdleWfc /\ IdleMgr /\ IdleRng /\ IdleAgent /\ IdleCalls

\* _select_main_rooms of the generator at hand
SelectMainRoomsOf ==
    /\ pc = "select_main"
    /\ rooms' = IF params.generator = "physics" THEN SelectMainRooms(rooms, params)
                ELSE IF params.generator = "enhanced"
                THEN SelectMainRoomsEnhanced(rooms, params)
                ELSE SelectMainRoomsAdj(rooms, adjacency_graph, params)
    /\ pc' = "main_selected"
    /\ UNCHANGED <<params, adjacency_graph, grid, physVars, room_id, cluster, placement_grid,
                   graphVars, wfcVars, mgrVars, rngVars, agentVars, callVars>>

NextSelect == SelectMainRoomsOf

SpecSelect == InitSelect /\ [][NextSelect]_vars

-----------------------------------------------------------------------------
(* DungeonAgent._design_dungeon_async (agent/agent_main.py): one task per   *)
(* room, run by asyncio.gather under an asyncio.Semaphore                   *)

MaxRoomKeys == 3
MaxConcurrent == 2

\* str(room['id']): the keys of DungeonData.extracted_rooms
RoomKey(n) == <<"0", "1", "2", "3", "4", "5", "6", "7", "8", "9">>[n + 1]

\* the answers a room-design request can come back with
DesignAnswers == {0, 1}

\* what llm_design_room_async returns for the room map of one room
MappedRoomOf(room_key, answer) == [room |-> room_key, answer |-> answer]

\* the agent of one call: the keys of extracted_rooms in dict order,
\* max_concurrent_requests and the room_to_generate argument
AsyncParams(n, max_concurrent_requests, room_to_generate) ==
    [extracted_rooms |-> [i \in 1 .. n |-> RoomKey(i)],
     max_concurrent_requests |-> max_concurrent_requests,
     room_to_generate |-> room_to_generate]

\* room_to_generate names no key of extracted_rooms: get_room_arr raises
RoomToGenerateRaises(p) ==
    /\ p.room_to_generate # "None"
    /\ ~\E i \in DOMAIN p.extracted_rooms : p.extracted_rooms[i] = p.room_to_generate

\* the keys of rooms_to_generate, in insertion order
RoomsToGenerate(p) ==
    IF p.room_to_generate = "None" THEN p.extracted_rooms
    ELSE <<p.room_to_generate>>

\* a coroutine of design_room_with_semaphore that has not run yet
CreatedTask(room_key) ==
    [room_key |-> room_key, state |-> "created", requests |-> 0, result |-> <<>>]

\* the tasks that hold the semaphore
InFlight == { i \in DOMAIN tasks : tasks[i].state = "in_flight" }

\* design_dungeon and design_dungeon_async call with room_to_generate=None
InitAsync ==
    /\ pc = "create_tasks"
    /\ \E n \in 0 .. MaxRoomKeys, max_concurrent_requests \in 0 .. MaxConcurrent :
          params = AsyncParams(n, max_concurrent_requests, "None")
    /\ rooms = <<>> /\ grid = <<>>
    /\ IdlePhys /\ IdleAdj /\ IdleGraph /\ IdleWfc /\ IdleMgr /\ IdleRng
    /\ IdleAgent /\ IdleCalls

\* rooms_to_generate, the semaphore, the tasks and room_keys lists
CreateTasks ==
    /\ pc = "create_tasks"
    /\ IF RoomToGenerateRaises(params)
       THEN pc' = "raised" /\ UNCHANGED <<tasks, semaphore>>
       ELSE /\ tasks' = [i \in DOMAIN RoomsToGenerate(params) |->
                           CreatedTask(RoomsToGenerate(params)[i])]
            /\ semaphore' = params.max_concurrent_requests
            /\ pc' = "gather"
    /\ UNCHANGED <<completed, designed_rooms, params, OutsideAsync>>

\* async with semaphore: tasks start in list order and waiters are woken in
\* the order they queued, so the next task to enter is the first one waiting
SemaphoreAcquire ==
    /\ pc \in {"gather", "raised"}
    /\ semaphore > 0
    /\ \E i \in DOMAIN tasks :
          /\ tasks[i].state = "created"
          /\ \A j \in 1 .. (i - 1) : tasks[j].state # "created"
          /\ tasks' = [tasks EXCEPT ![i].state = "in_flight",
                                    ![i].requests = tasks[i].requests + 1]
    /\ semaphore' = semaphore - 1
    /\ UNCHANGED <<pc, completed, designed_rooms, params, OutsideAsync>>

\* a request comes back and the task leaves the async with block
RequestReturns ==
    /\ pc \in {"gather", "raised"}
    /\ \E i \in InFlight, answer \in DesignAnswers :
          /\ tasks' = [tasks EXCEPT ![i].state = "done",
                                    ![i].result = MappedRoomOf(tasks[i].room_key, answer)]
          /\ completed' = Append(completed, i)
    /\ semaphore' = semaphore + 1
    /\ UNCHANGED <<pc, designed_rooms, params, OutsideAsync>>

\* a request raises (chat_parsed_async after max_generations attempts):
\* gather hands the first exception to its caller, the other tasks go on
RequestRaises ==
    /\ pc \in {"gather", "raised"}
    /\ \E i \in InFlight : tasks' = [tasks EXCEPT ![i].state = "failed"]
    /\ semaphore' = semaphore + 1
    /\ pc' = "raised"
    /\ UNCHANGED <<completed, designed_rooms, params, OutsideAsync>>

\* a variant of gather that hands the results over in completion order
ResultsAsCompleted == [i \in DOMAIN tasks |-> tasks[completed[i]].result]

\* results = await asyncio.gather(*tasks): the results in the order of tasks
GatherResults == [i \in DOMAIN tasks |-> tasks[i].result]

\* for key, result in zip(room_keys, results): designed_rooms[key] = result
GatherReturns ==
    /\ pc = "gather"
    /\ \A i \in DOMAIN tasks : tasks[i].state = "done"
    /\ designed_rooms' =
          [k \in { tasks[i].room_key : i \in DOMAIN tasks } |->
              LET i == CHOOSE j \in DOMAIN tasks :
                          /\ tasks[j].room_key = k
                          /\ \A m \in DOMAIN tasks : tasks[m].room_key = k => m <= j
              IN  GatherResults[i]]
    /\ pc' = "returned"
    /\ UNCHANGED <<tasks, semaphore, completed, params, OutsideAsync>>

NextAsync ==
    \/ CreateTasks
    \/ SemaphoreAcquire
    \/ RequestReturns
    \/ RequestRaises
    \/ GatherReturns

SpecAsync == InitAsync /\ [][NextAsync]_vars

-----------------------------------------------------------------------------
(* ChatAPI.chat_parsed and ChatAPI.chat_parsed_async (agent/chat/api.py):   *)
(* the two bodies are the same up to the await                              *)

MaxGenerations == 3

\* the texts a model can answer with; parser_func accepts the first two
ChatResponses == {"design_a", "design_b", "untagged", "misshaped"}

\* parser_func(model_response=last_resp): returns a value or raises
ParserFunc(response) ==
    CASE response \in {"design_a", "design_b"} ->
            [kind |-> "returned", value |-> <<"parsed", response>>]
      [] response = "untagged" ->
            [kind |-> "raised", exc |-> [type |-> "ParsingError", msg |-> response]]
      [] OTHER ->
            [kind |-> "raised", exc |-> [type |-> "ValueError", msg |-> response]]

\* failed_sys_prompt
FailedSysPrompt == "failed_sys_prompt"

\* the f-string of the repair prompt: type(last_exc).__name__, last_exc,
\* system, user and last_resp, in this order
RepairUserPrompt(exc, system, user, resp) ==
    <<exc.type, exc.msg, "Attempted System Prompt", system,
      "Attempted User Prompt", user, "Generated Model Response", resp>>

\* curr_sys, curr_user of one pass of the loop
CurrPrompts ==
    IF num_generations = 0
    THEN [system |-> params.system, user |-> <<params.user>>]
    ELSE [system |-> FailedSysPrompt,
          user |-> RepairUserPrompt(last_exc, params.system, params.user, last_resp)]

\* ChatAPI.chat / chat_async: the provider is sent the prompts; when that
\* raises it is sent ("", str(e)) once more, and what this second send
\* returns or raises is what chat returns or raises
ChatOutcomes ==
    { [kind |-> "returned", sends |-> n, resp |-> r] : n \in {1, 2}, r \in ChatResponses }
        \cup { [kind |-> "raised", sends |-> 2, exc |-> [type |-> "APIError", msg |-> "send"]] }

\* the arguments of one call: both methods, the prompts, max_generations
ChatParams(entry, max_generations) ==
    [method |-> entry, system |-> "system", user |-> "user",
     max_generations |-> max_generations]

InitChat ==
    /\ pc = "loop"
    /\ \E entry \in {"chat_parsed", "chat_parsed_async"},
          max_generations \in 0 .. MaxGenerations :
          params = ChatParams(entry, max_generations)
    /\ rooms = <<>> /\ grid = <<>>
    /\ IdlePhys /\ IdleAdj /\ IdleGraph /\ IdleWfc /\ IdleMgr /\ IdleRng
    /\ IdleAgent /\ IdleCalls

\* a loop that allows one more pass than max_generations
MoreGenerationsInclusive == num_generations <= params.max_generations

\* while num_generations < max_generations
MoreGenerations == num_generations < params.max_generations

\* one pass of the loop: the call of chat, then parser_func on its response;
\* the first exception of the two ends the pass (last_resp is <<>> for None
\* and <<text>> for a response)
ChatParsedAttempt ==
    /\ pc = "loop"
    /\ MoreGenerations
    /\ \E chat \in ChatOutcomes :
          LET result == IF chat.kind = "returned" THEN ParserFunc(chat.resp) ELSE chat
              exc == IF result.kind = "raised" THEN result.exc ELSE <<>>
              resp == IF chat.kind = "returned" THEN <<chat.resp>> ELSE <<>>
          IN  /\ calls' = Append(calls, [system |-> CurrPrompts.system,
                                         user |-> CurrPrompts.user,
                                         sends |-> chat.sends,
                                         resp |-> resp, exc |-> exc])
              /\ last_resp' = IF chat.kind = "returned" THEN <<chat.resp>> ELSE last_resp
              /\ IF result.kind = "returned"
                 THEN /\ outcome' = result
                      /\ pc' = "done"
                      /\ UNCHANGED <<last_exc, num_generations>>
                 ELSE /\ last_exc' = result.exc
                      /\ num_generations' = num_generations + 1
                      /\ UNCHANGED <<outcome, pc>>
    /\ UNCHANGED <<params, OutsideChat>>

\* the raise after the loop
ChatParsedGivesUp ==
    /\ pc = "loop"
    /\ ~MoreGenerations
    /\ outcome' = [kind |-> "raised", exc |-> [type |-> "ValueError", msg |-> "maximum"]]
    /\ pc' = "done"
    /\ UNCHANGED <<num_generations, last_exc, last_resp, calls, params, OutsideChat>>

NextChat ==
    \/ ChatParsedAttempt
    \/ ChatParsedGivesUp

SpecChat == InitChat /\ [][NextChat]_vars

-----------------------------------------------------------------------------
(* Claims about the physics path *)

\* the cells [x, x+width) x [y, y+height) that export_to_json reports as a
\* room's bounds and that _place_room_on_grid paints
PhysCells(r) ==
    { <<cx, cy>> \in (r.x .. (r.x + r.width - 1)) \X (r.y .. (r.y + r.height - 1)) : TRUE }

\* the rooms of the exported list that are known once main rooms are selected
ExportedMain == { i \in DOMAIN rooms : rooms[i].is_main }

-----------------------------------------------------------------------------
(* Claims about the adjacency path *)

\* the adjacency path has run up to and including door placement
AdjLayoutDone == pc = "doors_placed"

\* C2: after generate_layout of the adjacency path, under every placement
\* strategy, the cell sets that get_grid_points returns for two distinct rooms
\* of the room list are disjoint, rooms shifted by _constrain_to_grid included.
C2_GridPointsDisjoint ==
    AdjLayoutDone =>
        \A i, j \in DOMAIN rooms :
            i # j => GetGridPoints(rooms[i].geometry) \cap GetGridPoints(rooms[j].geometry) = {}

\* the room ids a breadth-first traversal over the edges of g visits from the
\* ids in seen
RECURSIVE Visited(_, _)
Visited(g, seen) ==
    LET next == seen \cup { n \in g.nodes : \E m \in seen : {m, n} \in g.edges }
    IN  IF next = seen THEN seen ELSE Visited(g, next)

\* C3: a breadth-first traversal over the exported graph edges that starts at
\* room id 0 visits every room id of the exported room list (adjacency path:
\* all placed rooms).
C3_AllRoomsVisitedFromZero ==
    AdjLayoutDone =>
        \A k \in DOMAIN rooms :
            rooms[k].id \in Visited(adjacency_graph, {0} \cap adjacency_graph.nodes)

\* C4: with door_probability = 1.0, after generate_layout every edge (a, b) of
\* the adjacency graph has a non-empty set of door coordinates that is in the
\* door list of room a and in the door list of room b.
C4_EveryEdgeHasDoors ==
    (AdjLayoutDone /\ params.door_probability = 100) =>
        \A e \in EdgePairs(rooms, adjacency_graph) :
            rooms[e[1]].doors \cap rooms[e[2]].doors # {}

\* C9: after _place_doors_between_adjacent_rooms, every door coordinate in the
\* door list of a room was added for a pair of adjacent rooms that the room is
\* one of, and is in the door list of the other room of that pair as well.
C9_DoorsSymmetric ==
    AdjLayoutDone =>
        \A a \in DOMAIN rooms :
            \A c \in rooms[a].doors :
                \E b \in DOMAIN rooms \ {a} :
                    /\ {rooms[a].id, rooms[b].id} \in adjacency_graph.edges
                    /\ c \in DoorPositions(GetSharedWall(rooms[a].geometry.bounds,
                                                         rooms[b].geometry.bounds), params)
                    /\ c \in rooms[b].doors

\* three rooms are placed and one of them has door coordinates in common with
\* each of the other two
C9_Witness ==
    /\ AdjLayoutDone
    /\ Len(rooms) = 3
    /\ \E a \in DOMAIN rooms :
          \A b \in DOMAIN rooms \ {a} : rooms[a].doors \cap rooms[b].doors # {}

-----------------------------------------------------------------------------
(* Claims about the final-grid rasterizer *)

\* C6: running _create_final_grid again on the same rooms, graph edges and door
\* lists yields a grid identical to the one of the first run.
C6_RerunSameGrid ==
    [][(pc = "done" /\ pc' = "done") => grid' = grid]_vars

\* C10: every coordinate stored in a room's door list and the bounds of every
\* exported room lie within the grid, whatever the position and size of the
\* room (max_x and max_y, the far edges of the room, may equal the width and
\* the height).
C10_RoomsAndDoorsInGrid ==
    AdjLayoutDone =>
        \A k \in DOMAIN rooms :
            /\ 0 <= rooms[k].geometry.bounds.min_x
            /\ rooms[k].geometry.bounds.max_x <= AdjWidth
            /\ 0 <= rooms[k].geometry.bounds.min_y
            /\ rooms[k].geometry.bounds.max_y <= AdjHeight
            /\ \A c \in rooms[k].doors : InAdjGrid(c)

-----------------------------------------------------------------------------
(* Claims about the graph stage *)

\* C8: after graph construction (triangulation or linear fallback, spanning
\* tree, reconnection) the graph has every main room id as a node and is
\* connected, so it has at least (number of main rooms - 1) edges, in both
\* generators and for every number of main rooms >= 1.
C8_GraphSpansMainRooms ==
    pc = "graph_done" =>
        /\ { main_rooms[k].id : k \in DOMAIN main_rooms } \subseteq graph.nodes
        /\ IsConnected(graph)
        /\ Cardinality(graph.edges) >= Len(main_rooms) - 1

-----------------------------------------------------------------------------
(* Claims about WaveFunctionCollapse *)

\* C5: when run finishes, for every two horizontally adjacent output cells that
\* were both collapsed the pattern of the right cell is in the 'right' rule set
\* of the pattern of the left cell, and for every two vertically adjacent
\* collapsed cells the pattern of the lower cell is in the 'down' rule set of
\* the pattern of the upper cell.
C5_CollapsedNeighboursCompatible ==
    pc = "returned" =>
        \A c, n \in OutCells :
            (output[c] # -1 /\ output[n] # -1) =>
                /\ (n = <<c[1], c[2] + 1>>) => output[n] \in Rules(output[c], "right")
                /\ (n = <<c[1] + 1, c[2]>>) => output[n] \in Rules(output[c], "down")

\* C15: when run finishes, every output cell whose domain holds exactly one
\* pattern carries the centre tile of that pattern, and a cell that went
\* through the fallback branch (its output is still -1) has an empty domain.
C15_SingletonCellsMapped ==
    pc = "returned" =>
        \A c \in OutCells :
            /\ Cardinality(possible[c]) = 1 =>
                  \A p \in possible[c] :
                      tilemap[c] = CenterTile(Unique[p + 1], params.pattern_size)
            /\ output[c] = -1 => possible[c] = {}

-----------------------------------------------------------------------------
(* Claims about LayoutManager and LayoutSystem *)

\* the keywords of the finished call that are no attribute of the parameter
\* object of the method
UnknownKwargs ==
    IF method \in LayoutMethod
       THEN {key \in DOMAIN kwargs : ~HasAttr(GetDefaultParams(method), key)}
       ELSE {}

ManagerFinished == pc \in {"manager_returned", "manager_raised"}

\* C7: LayoutManager.generate_layout called with a keyword whose name is not a
\* field of the parameter class of the method fails with an error and returns
\* no layout, and so does a call with a method that is no member of
\* LayoutMethod.
C7_UnknownOverrideFailsFast ==
    ManagerFinished =>
        ((UnknownKwargs # {} \/ method \notin LayoutMethod) =>
            (pc = "manager_raised" /\ layout.kind = "error"))

\* C7 as amended: LayoutManager.generate_layout ignores a keyword whose name
\* is no attribute of the parameter object: the call returns a layout, the
\* object handed to the generator has exactly the attributes of the class,
\* every keyword that names an attribute is applied and every other attribute
\* keeps the value of the given object (of the defaults when params is None).
\* A method that is no member of LayoutMethod, and an algorithm of
\* LayoutSystem other than "polyomino", raise an error and no generator runs.
C7_UnknownOverrideIgnored ==
    [][
        /\ (pc = "manager_call" /\ method \in LayoutMethod) =>
            (LET base == IF params = None THEN GetDefaultParams(method)
                         ELSE params
             IN  /\ pc' = "manager_returned"
                 /\ layout'.kind = "layout"
                 /\ DOMAIN params' = DOMAIN GetDefaultParams(method)
                 /\ \A key \in DOMAIN params' :
                       params'[key] = IF key \in DOMAIN kwargs THEN kwargs[key]
                                      ELSE base[key])
        /\ (pc = "manager_call" /\ method \notin LayoutMethod) =>
            (pc' = "manager_raised" /\ layout'.kind = "error" /\ params' = params)
        /\ (pc = "system_call" /\ method # "polyomino") =>
            (pc' = "system_raised" /\ layout'.kind = "error" /\ params' = params)
    ]_vars

\* a call with an unknown keyword has returned a layout
C7_Witness ==
    /\ pc = "manager_returned"
    /\ UnknownKwargs # {}
    /\ layout.kind = "layout"
    /\ \E key \in DOMAIN kwargs : HasAttr(params, key) /\ params[key] = kwargs[key]

-----------------------------------------------------------------------------
(* Claims about the final grid of the physics path *)

\* the cells of the returned grid that hold the marker of a main room
MarkerCells == { c \in DOMAIN grid : grid[c] \in MainRoomCodes }

\* C11: when generate_tinykep_layout returns and at least min_main_rooms rooms
\* were generated, the grid holds at least min_main_rooms cells with a code in
\* 6 .. 11.
C11_MarkerPerMainRoom ==
    (pc = "tinykep_done" /\ Cardinality(DOMAIN rooms) >= params.min_main_rooms) =>
        Cardinality(MarkerCells) >= params.min_main_rooms

-----------------------------------------------------------------------------
(* Claims about the random draws *)

\* C12: two runs of the same method with the same parameters and the same
\* seed produce the same room list.
C12_SameSeedSameRooms ==
    (Len(runs) = 2 /\ runs[2].returned) => runs[1].rooms = runs[2].rooms

-----------------------------------------------------------------------------
(* Claims about requests that run at once *)

\* C13: each of two interleaved requests works on the room list it would have
\* when run alone, the rooms it made itself: no step of the other request
\* writes to it.
C13_RequestsIndependent ==
    \A t \in DOMAIN requests :
        requests[t].pc = "rooms_done" => requests[t].result = requests[t].own

-----------------------------------------------------------------------------
(* Claims about the parser of the agent *)

\* the response has another shape than the room map
ShapeDiffers ==
    \/ Len(model_response.answer) # Len(room_map)
    \/ \E r \in DOMAIN model_response.answer :
          Len(model_response.answer[r]) # Len(room_map[1])

\* a cell that is empty ('0') or wall ('2') in the room map holds another
\* value in the response
NonFloorCellChanged ==
    \E r \in DOMAIN room_map : \E c \in DOMAIN room_map[r] :
        /\ room_map[r][c][2] \in {"0", "2"}
        /\ ToStr(model_response.answer[r][c])[2] # room_map[r][c][2]

\* C14: parse_design_room raises an error whenever the shape of the response
\* differs from the shape of the room map or a cell that is neither floor nor
\* door in the room map carries another value in the response.
C14_MismatchRaises ==
    (pc = "parsed" /\ model_response.tagged) =>
        ((ShapeDiffers \/ (~ShapeDiffers /\ NonFloorCellChanged)) =>
            mapped_room.kind = "raised")

\* the ids of the rooms placed so far
PlacedIds == { rooms[k].id : k \in DOMAIN rooms }

-----------------------------------------------------------------------------
(* Claims about the polyomino path *)

\* placed room id is joined to room 0 by a walk over graph edges all of whose
\* ends are placed rooms
JoinedToEntrance(id) ==
    \E m \in 1 .. Len(rooms) :
       \E walk \in [1 .. m -> PlacedIds] :
          /\ walk[1] = 0
          /\ walk[m] = id
          /\ \A i \in 1 .. (m - 1) : {walk[i], walk[i + 1]} \in graph.edges

\* C17: generate returns success = True only if a room was placed and every
\* placed room is joined to room 0 through graph edges between placed rooms;
\* if a requested room was left out and a placed room is cut off from room 0,
\* success is False.
C17_SuccessMeansConnected ==
    pc = "returned" =>
        /\ layout.success =>
              /\ Len(layout.rooms) > 0
              /\ \A id \in PlacedIds : JoinedToEntrance(id)
        /\ (Len(rooms) < params.rooms /\ \E id \in PlacedIds : ~JoinedToEntrance(id)) =>
              ~layout.success

\* generate has returned after leaving out a room whose absence cuts a placed
\* room off from the entrance
C17_Witness ==
    /\ pc = "returned"
    /\ layout.kind = "LayoutResult"
    /\ Len(rooms) < params.rooms
    /\ \E id \in PlacedIds : ~JoinedToEntrance(id)
    /\ ~layout.success

-----------------------------------------------------------------------------
(* Claims about the separation loop *)

\* no two rooms of the list share a cell
NoPairOverlaps(rs) ==
    \A i, j \in DOMAIN rs : i # j => PhysCells(rs[i]) \cap PhysCells(rs[j]) = {}

-----------------------------------------------------------------------------
(* Claims about propagation *)

\* pattern p2 may stand next to pattern p1 in the given direction, by the
\* rules learned from the sample: left and up are right and down read from
\* the other side
Compatible(p1, direction, p2) ==
    CASE direction = "right" -> p2 \in Rules(p1, "right")
      [] direction = "down" -> p2 \in Rules(p1, "down")
      [] direction = "left" -> p1 \in Rules(p2, "right")
      [] direction = "up" -> p1 \in Rules(p2, "down")

\* the patterns of the domain of n that are compatible with a pattern of the
\* domain of c, n being the neighbour of c in the direction
Supported(c, n, direction) ==
    { p2 \in possible[n] : \E p1 \in possible[c] : Compatible(p1, direction, p2) }

\* the neighbours of c in the directions named, after a return of propagate:
\* every pattern left in the domain of an uncollapsed neighbour is supported,
\* unless none is
NarrowedAround(c, names) ==
    \A k \in DOMAIN Directions :
       LET d == Directions[k]
           n == <<c[1] + d.di, c[2] + d.dj>>
       IN  (d.name \in names /\ n \in OutCells /\ output[n] = -1) =>
              (Supported(c, n, d.name) = possible[n] \/ Supported(c, n, d.name) = {})

\* C19: when propagate has returned, the right, down, left and up uncollapsed
\* neighbours of a processed cell hold only patterns that are compatible with
\* a pattern of the cell, unless no pattern of the neighbour is.  (A collapsed
\* cell is the cell a call of propagate started from, and its domain has not
\* changed since.)
C19_NarrowedInFourDirections ==
    pc = "observe" =>
        \A c \in OutCells : output[c] # -1 => NarrowedAround(c, {"right", "down", "left", "up"})

-----------------------------------------------------------------------------
(* Claims about the walls of a painted room *)

\* the cells that a later paint step of _create_final_grid may have written
\* over room k: cells and centres of the other rooms, and the doors
PaintedOver(k) ==
    UNION { GetGridPoints(rooms[j].geometry) \cup { CenterCell(rooms[j].geometry) } :
              j \in DOMAIN rooms \ {k} }
    \cup UNION { rooms[j].doors : j \in DOMAIN rooms }

\* C20: with place_walls and room_interior_fill set, every perimeter cell of
\* a painted room that lies in the grid holds the wall code 2, unless it is
\* the centre marker of the room or a door (or was painted again for another
\* room).
C20_PerimeterIsWall ==
    (pc = "done" /\ params.place_walls /\ params.room_interior_fill) =>
        \A k \in DOMAIN rooms :
           \A c \in GetPerimeterPoints(rooms[k].geometry) :
              (InAdjGrid(c) /\ c # CenterCell(rooms[k].geometry) /\ c \notin PaintedOver(k)) =>
                  grid[c] = 2

-----------------------------------------------------------------------------
(* Claims about the bounds of a room geometry *)

\* the bounding box of a non-empty set of unit cells: the extent of the union
\* of the unit squares
BoundingBox(cs) ==
    [min_x |-> SetMin({ c[1] : c \in cs }), max_x |-> SetMax({ c[1] + 1 : c \in cs }),
     min_y |-> SetMin({ c[2] : c \in cs }), max_y |-> SetMax({ c[2] + 1 : c \in cs })]

\* C21: at every point of a run of the adjacency path, the bounds of every
\* room geometry are the exact bounding box of its polygon and of the cell set
\* that get_grid_points returns, rooms translated by _constrain_to_grid
\* included.
C21_BoundsAreBoundingBox ==
    \A k \in DOMAIN rooms :
        LET g == rooms[k].geometry
        IN  /\ g.bounds = BoundingBox(g.poly)
            /\ g.bounds = BoundingBox(GetGridPoints(g))

-----------------------------------------------------------------------------
(* Claims about the force between two rooms *)

\* the force contribution (x, y) that room i receives from room j in the
\* force computation of _separate_rooms
PairForce(rs, i, j) ==
    LET d == Center2(rs[i])[1] - Center2(rs[j])[1]
        e == Center2(rs[i])[2] - Center2(rs[j])[2]
    IN  <<ForceComponent(d, e), ForceComponent(e, d)>>

\* C22: in a separation iteration, every room of an overlapping pair whose
\* centers coincide receives a non-zero force contribution from the other
\* room of the pair.
C22_CoincidentCentresRepelled ==
    (pc = "separate" /\ iteration < params.max_physics_iterations) =>
        \A i, j \in DOMAIN rooms :
            (i # j /\ Overlaps(rooms[i], rooms[j]) /\ Center2(rooms[i]) = Center2(rooms[j])) =>
                PairForce(rooms, i, j) # <<0, 0>>

-----------------------------------------------------------------------------
(* Claims about the corridor-drawing steps *)

\* C23: every corridor-drawing step changes only cells that held 0 and sets
\* them to 3; a cell that was non-void before the step keeps its code, so
\* every cell that room painting wrote still holds what was painted there.
C23_CorridorsOnlyOnVoid ==
    /\ [][ \A c \in DOMAIN grid :
              /\ grid[c] # 0 => grid'[c] = grid[c]
              /\ grid'[c] # grid[c] => grid'[c] = 3 ]_vars
    /\ [](pc = "draw_corridors" =>
            \A c \in DOMAIN grid :
                PaintedRooms(rooms, params)[c] # 0 => grid[c] = PaintedRooms(rooms, params)[c])

\* two corridor calls were made, a corridor tile lies on a cell that was void
\* and next to it, on the line of the corridor, a painted floor tile is kept
C23_Witness ==
    /\ pc = "draw_corridors"
    /\ iteration = MaxCorridorCalls
    /\ \E c \in DOMAIN grid :
          /\ grid[c] = 3
          /\ PaintedRooms(rooms, params)[c] = 0
          /\ \E n \in { <<c[1] + 1, c[2]>>, <<c[1] - 1, c[2]>>, <<c[1], c[2] + 1>>,
                        <<c[1], c[2] - 1>> } \cap DOMAIN grid :
                grid[n] = 1 /\ n \in UNION { CorridorCells(corridor, params) :
                                    corridor \in CreateCorridorBetweenRooms(rooms[0], rooms[1]) }

-----------------------------------------------------------------------------
(* Claims about reconnection *)

\* C24: _add_reconnection_edges leaves a graph that contains every edge of
\* the spanning tree, whose edges are all edges of the triangulation graph,
\* and that has at most min(floor(pruned * edge_reconnect_percent),
\* max_additional_connections) edges beyond the spanning tree, in the physics
\* and in the enhanced generator.
C24_ReconnectionBounded ==
    [][ (pc = "mst_created" /\ pc' = "graph_done") =>
          /\ mst_graph.edges \subseteq graph'.edges
          /\ graph'.edges \subseteq graph.edges \cup mst_graph.edges
          /\ Cardinality(graph'.edges \ mst_graph.edges) <=
                Min((Cardinality(graph.edges \ mst_graph.edges) * params.edge_reconnect_percent)
                        \div 100,
                    params.max_additional_connections) ]_vars

-----------------------------------------------------------------------------
(* Claims about the door window *)

\* door_positions is the run of length n of the shared wall that starts after
\* its first s coordinates
IsRunOfWall(s, n) ==
    /\ s + n <= Len(pair_wall)
    /\ door_positions = SubSeq(pair_wall, s + 1, s + n)

\* the index of the shared wall's midpoint, counted from 0
MidPoint == Len(pair_wall) \div 2

\* C25 as stated: the door cells are a contiguous run of the shared-wall list
\* of length max(min_door_length, L div 3), clipped to the list, that contains
\* index L div 2 and is non-empty whenever min_door_length >= 1.
C25_DoorWindowAsStated ==
    pc = "doors_placed" =>
        LET L == Len(pair_wall)
            n == Min(L, Max(params.min_door_length, L \div 3))
        IN  /\ \E s \in 0 .. L : IsRunOfWall(s, n)
            /\ params.min_door_length >= 1 =>
                  /\ door_positions # <<>>
                  /\ \E s \in 0 .. MidPoint : IsRunOfWall(s, n) /\ MidPoint < s + n

\* C25, amended: the length of the run is min(max_door_length,
\* max(min_door_length, L div 3)), clipped to the list; the run contains index
\* L div 2 and is non-empty whenever that length is at least 1.
C25_DoorWindowCentred ==
    pc = "doors_placed" =>
        LET L == Len(pair_wall)
            n == Min(L, Min(params.max_door_length, Max(params.min_door_length, L \div 3)))
        IN  /\ \E s \in 0 .. L : IsRunOfWall(s, n)
            /\ n >= 1 =>
                  /\ door_positions # <<>>
                  /\ \E s \in 0 .. MidPoint :
                        /\ IsRunOfWall(s, n)
                        /\ MidPoint < s + n
                        /\ s = Max(0, MidPoint - n \div 2)

\* a shared wall long enough for L div 3 to exceed max_door_length: the door
\* has max_door_length cells around the midpoint
C25_Witness ==
    /\ pc = "doors_placed"
    /\ params.max_door_length >= 1
    /\ Len(pair_wall) \div 3 > params.max_door_length
    /\ Len(door_positions) = params.max_door_length
    /\ pair_wall[MidPoint + 1] \in { door_positions[k] : k \in DOMAIN door_positions }

-----------------------------------------------------------------------------
(* Claims about the doors of the final grid *)

\* C26: with place_doors enabled, every in-bounds coordinate of any room's
\* door list holds tile code 4 in the returned grid of the adjacency path,
\* whatever room painting wrote there.
C26_DoorsPaintedLast ==
    (pc = "done" /\ params.place_doors) =>
        \A k \in DOMAIN rooms : \A c \in rooms[k].doors : InAdjGrid(c) => grid[c] = 4

\* a door lies on a cell of a room, on which room painting wrote a floor tile
\* or the centre marker, and the returned grid holds the door there
C26_Witness ==
    /\ pc = "done"
    /\ params.place_doors
    /\ \E k, m \in DOMAIN rooms : \E c \in rooms[k].doors :
          /\ InAdjGrid(c)
          /\ c = CenterCell(rooms[m].geometry)
          /\ grid[c] = 4

-----------------------------------------------------------------------------
(* Claims about main-room selection *)

\* the list positions of the main rooms
MainPositions == { k \in DOMAIN rooms : rooms[k].is_main }

\* the list positions of the rooms that meet the size threshold of the
\* generator at hand
MetThreshold ==
    { k \in DOMAIN rooms :
        IF params.generator = "physics"
        THEN /\ rooms[k].width * 100 >= params.room_size_mean * params.main_room_threshold
             /\ rooms[k].height * 100 >= params.room_size_mean * params.main_room_threshold
        ELSE GeomArea(rooms[k].geometry) * 10000
                 >= (params.room_size_mean * params.main_room_threshold)
                    * (params.room_size_mean * params.main_room_threshold) }

\* twice the value a room is ranked by: its area in the physics paths, its
\* area weighted by connectivity in the adjacency path
RankValue(k) ==
    IF params.generator = "adjacent"
    THEN GeomArea(rooms[k].geometry) * (2 + Connectivity(adjacency_graph, rooms[k].id))
    ELSE 2 * rooms[k].width * rooms[k].height

\* C27: after _select_main_rooms the number of main rooms is at least
\* min(min_main_rooms, number of rooms); if fewer than min_main_rooms rooms
\* met the size threshold, no unselected room ranks above a room selected by
\* rank (in the adjacency path the rooms that met the threshold stay main and
\* the ranking is among the others).
C27_MainRoomFallback ==
    pc = "main_selected" =>
        /\ Cardinality(MainPositions) >= Min(params.min_main_rooms, Len(rooms))
        /\ Cardinality(MetThreshold) < params.min_main_rooms =>
              LET ranked == IF params.generator = "adjacent"
                            THEN MainPositions \ MetThreshold ELSE MainPositions
              IN  /\ params.generator = "adjacent" => MetThreshold \subseteq MainPositions
                  /\ \A s \in ranked : \A u \in DOMAIN rooms \ MainPositions :
                        RankValue(u) <= RankValue(s)

\* the fallback of the adjacency path chose a room over a larger one that has
\* fewer neighbours
C27_Witness ==
    /\ pc = "main_selected"
    /\ params.generator = "adjacent"
    /\ Cardinality(MetThreshold) < params.min_main_rooms
    /\ \E s \in MainPositions \ MetThreshold : \E u \in DOMAIN rooms \ MainPositions :
          GeomArea(rooms[u].geometry) > GeomArea(rooms[s].geometry)

-----------------------------------------------------------------------------
(* Claims about the termination of WaveFunctionCollapse.run *)

\* the cells of the output that the main loop has collapsed
Collapsed == { c \in OutCells : output[c] # -1 }

\* the sum of the sizes of all domains
DomainTotal == SumOver([c \in OutCells |-> Cardinality(possible[c])], OutCells)

\* C28: run terminates.  An iteration of propagate pops one cell and pushes
\* only cells whose domain strictly shrank, so the stack empties; every pass
\* of the main loop collapses one more cell, so there are at most H*W
\* collapses before observe returns None and run returns.
C28_RunTerminates ==
    /\ <>(pc = "returned")
    /\ [][ (pc = "propagate" /\ pc' = "propagate") =>
             /\ \A c \in OutCells : possible'[c] \subseteq possible[c]
             /\ Len(stack') = Len(stack) - 1
                              + Cardinality({ c \in OutCells : possible'[c] # possible[c] })
             /\ \/ DomainTotal' < DomainTotal
                \/ DomainTotal' = DomainTotal /\ Len(stack') < Len(stack) ]_vars
    /\ [][ (pc = "observe" /\ pc' = "propagate") =>
             Cardinality(Collapsed') = Cardinality(Collapsed) + 1 ]_vars
    /\ [](Cardinality(Collapsed) <= OutH * OutW)

\* run has returned after at least two collapses, and propagation had
\* narrowed a cell to one pattern, so that the main loop never collapsed it
C28_Witness ==
    /\ pc = "returned"
    /\ Cardinality(Collapsed) >= 2
    /\ \E c \in OutCells : output[c] = -1 /\ Cardinality(possible[c]) = 1

\* C29: while _design_dungeon_async runs, at most max_concurrent_requests
\* room-design requests hold the semaphore at any moment; every key of
\* extracted_rooms has exactly one task, which issues at most one request and
\* exactly one by the time the dictionary is returned; and the returned
\* dictionary stores under each room key the result of that room's own
\* request, whatever the order in which the requests completed.
C29_BoundedOrderedRequests ==
    /\ Cardinality(InFlight) <= params.max_concurrent_requests
    /\ pc \in {"gather", "raised", "returned"} /\ tasks # <<>> =>
          semaphore + Cardinality(InFlight) = params.max_concurrent_requests
    /\ pc \in {"gather", "returned"} =>
          /\ Len(tasks) = Len(params.extracted_rooms)
          /\ \A i \in DOMAIN params.extracted_rooms :
                Cardinality({ j \in DOMAIN tasks :
                                tasks[j].room_key = params.extracted_rooms[i] }) = 1
          /\ \A j \in DOMAIN tasks : tasks[j].requests <= 1
    /\ pc = "returned" =>
          /\ DOMAIN designed_rooms =
                { params.extracted_rooms[i] : i \in DOMAIN params.extracted_rooms }
          /\ \A j \in DOMAIN tasks :
                /\ tasks[j].requests = 1
                /\ designed_rooms[tasks[j].room_key] = tasks[j].result
                /\ designed_rooms[tasks[j].room_key].room = tasks[j].room_key

\* three rooms were designed two at a time, the requests came back in an
\* order other than the order of the tasks, and the dictionary was returned
C29_Witness ==
    /\ pc = "returned"
    /\ Len(tasks) >= 3
    /\ params.max_concurrent_requests = 2
    /\ \E a, b \in DOMAIN completed : a < b /\ completed[a] > completed[b]
    /\ \E j, k \in DOMAIN tasks : tasks[j].result.answer # tasks[k].result.answer

\* the response chat returned most recently before call i, None when none
LastRespBefore(i) ==
    LET js == { j \in 1 .. (i - 1) : calls[j].resp # <<>> }
    IN  IF js = {} THEN <<>> ELSE calls[CHOOSE j \in js : \A k \in js : k <= j].resp

=============================================================================
